---- MODULE Spec2Model ----
(***************************************************************************)
(* Model of the weather application's request coordinator, the hook        *)
(* useWeatherData: the React state it owns, the SWR cache it reads, the    *)
(* weather fetches it issues and aborts, the device geolocation attempts,  *)
(* the startup effect and its fallback timer.                              *)
(*                                                                         *)
(* One action is one uninterrupted piece of JavaScript: an event handler   *)
(* or the continuation of an await, followed by the render React commits   *)
(* for the state it set and by the effects of that render (the SWR key     *)
(* effect that starts the fetch of a new key, the startup effect's cleanup *)
(* and the error effect).                                                  *)
(***************************************************************************)
EXTENDS Integers, FiniteSets, Sequences, TLC

(***************************************************************************)
(* Bounds of the model.                                                    *)
(***************************************************************************)
\* request ids that can be generated in one session
MaxRequestIds == 2
\* getUserLocation calls that can be in progress at once
MaxGeoCalls == 2

(***************************************************************************)
(* Values.                                                                 *)
(***************************************************************************)
NoCoords == "null"
DEFAULT_COORDS == "NYC"
\* the position the device reports
DEVICE_COORDS == "DEVICE"
\* the places a user can pick from the search results
SearchCoords == {"A", "B"}
Coords == {DEFAULT_COORDS, DEVICE_COORDS} \cup SearchCoords

DEFAULT_LOCATION_NAME == "New York City, US"
NoName == ""
\* the name the page passes to setLocation for a place
NameOf(c) == IF c = "A" THEN "A, US" ELSE "B, US"
\* the name the provider reports in the current-conditions response
ProviderName(c) == c

NoKey == <<>>
NoData == "undefined"
NoError == "undefined"
AbortError == "AbortError"
FetchError == "Error"
\* the request id useState starts with: "initial"
InitialRequestId == 0
errorRetryCount == 3

VARIABLES
  \* React state of useWeatherData
  coordinates, isGettingLocation, customLocationName, currentRequestId,
  isPendingRequest, geolocated, userHasSearched,
  \* useRef: the fetch whose AbortController is in the ref, 0 for null
  abortControllerRef,
  \* the weather fetches in flight
  fetches,
  \* the SWR cache, key -> [data, error, isValidating]
  cache,
  \* the data SWR returned last (keepPreviousData)
  laggyData,
  \* the error retry SWR has scheduled: [key, retryCount], key NoKey for none
  retryTimer,
  \* the startup effect: is the hook mounted, where checkAndGetLocation is,
  \* the fallback timer, what its closure captured, whether the effect has a
  \* cleanup registered and the controller the cleanup captured
  mounted, startupPc, fallbackTimer, timerClosure, hasCleanup,
  capturedController,
  \* getUserLocation calls awaiting the permission check / the position
  permissionWaiters, positionWaiters,
  \* of the position waiters, those that were pending when setLocation ran
  abandonedWaiters,
  \* the browser: [permissions, state, geolocation]
  browser,
  \* the next request id to generate
  nextRequestId,
  \* what the last step told the user
  toasts,
  \* history: the outcome of the last completed fetch of each key
  lastOutcome,
  \* history: how often the startup effect has started the automatic
  \* geolocation and armed the fallback timer
  startupRuns,
  \* localStorage: the values under the keys "weather_app_recent_locations"
  \* and "weather_app_favorite_locations"
  recentStore, favoriteStore,
  \* what the last call of a location store function gave its caller
  returned,
  \* history: the ids of the stored entries the last call of a store
  \* function took out of its list or replaced by a new entry
  dropped,
  \* history: the list the last call of a store function was for
  calledFor,
  \* the weather source (lib/api/weather.ts): the operation called,
  \* getWeatherFromCoords or searchLocationsByName, and where it is
  operation, sourcePc,
  \* its inputs: the search query, the cancellation signal, the list of the
  \* provider's forecast response, and the day of the device's clock
  query, signal, forecastData, today,
  \* the network calls it has started and those that ran to completion
  fetchCalls,
  \* what it has resolved or rejected with
  settled,
  \* the temperature unit (useTemperatureUnit): the unit in memory, the
  \* value under the key "weatherapp_temp_unit", and whether the hook's
  \* mount effect has run
  unit, savedUnit, unitMounted,
  \* which of the two versions of the hook this is, the unit and the saved
  \* value before each of the last two calls of toggleUnit, and the last
  \* call of displayTemp: its argument in tenths of a degree and its result
  variant, beforeToggle, celsius, displayed,
  \* the page's location search (useState): the text of the input, the
  \* results listed, whether a search is awaited and the dropdown is open
  searchQuery, searchResults, isSearching, showDropdown,
  \* the debounce timer of the search effect, the calls of handleSearch
  \* that await searchLocationsByName, and the number of the next call
  debounceTimer, searches, nextSearch,
  \* the favorites and the recents as loadSavedLocations read them last,
  \* and whether the page's mount effects have run
  savedLocations, pageMounted

\* the state of the hook useWeatherData and of its environment
hookVars == <<coordinates, isGettingLocation, customLocationName,
              currentRequestId, isPendingRequest, geolocated, userHasSearched,
              abortControllerRef, fetches, cache, laggyData, retryTimer,
              mounted, startupPc, fallbackTimer, timerClosure, hasCleanup,
              capturedController, permissionWaiters, positionWaiters,
              abandonedWaiters, browser, nextRequestId, toasts, lastOutcome,
              startupRuns>>

\* the state of the location store
storeVars == <<recentStore, favoriteStore, returned, dropped, calledFor>>

\* the state of a call of the weather source
sourceVars == <<operation, sourcePc, query, signal, forecastData, today,
                fetchCalls, settled>>

\* the state of the temperature unit
unitVars == <<unit, savedUnit, unitMounted, variant, beforeToggle, celsius,
              displayed>>

\* the state of the page's location search
pageVars == <<searchQuery, searchResults, isSearching, showDropdown,
              debounceTimer, searches, nextSearch, savedLocations,
              pageMounted>>

vars == <<hookVars, storeVars, sourceVars, unitVars, pageVars>>

(***************************************************************************)
(* What useSWR returns for the key of the current render.                  *)
(***************************************************************************)
\* the key useSWR is given: null without coordinates, else the coordinates
\* together with the request id
SWRKey(c, id) == IF c = NoCoords THEN NoKey ELSE <<c, id>>

EmptyEntry == [data |-> NoData, error |-> NoError, isValidating |-> FALSE]
EntryOf(ca, k) == IF k \in DOMAIN ca THEN ca[k] ELSE EmptyEntry
Put(ca, k, e) == [x \in DOMAIN ca \cup {k} |-> IF x = k THEN e ELSE ca[x]]

key == SWRKey(coordinates, currentRequestId)
cachedData == EntryOf(cache, key).data
\* keepPreviousData: the data of the key, else the data returned before
weather == IF cachedData = NoData THEN laggyData ELSE cachedData
error == EntryOf(cache, key).error
isValidating == EntryOf(cache, key).isValidating

\* loading that forgets isValidating: with keepPreviousData the snapshot of
\* the previous key would count as ready while the new key is fetched
loadingWithoutValidating ==
  \/ (weather = NoData /\ error = NoError)
  \/ error = AbortError
  \/ isGettingLocation
  \/ isPendingRequest

\* loading that forgets isGettingLocation
loadingWithoutGettingLocation ==
  \/ (weather = NoData /\ error = NoError)
  \/ error = AbortError
  \/ isValidating
  \/ isPendingRequest

\* the loading flag the hook returns
loading ==
  \/ (weather = NoData /\ error = NoError)
  \/ error = AbortError
  \/ isValidating
  \/ isGettingLocation
  \/ isPendingRequest

\* the location label the hook returns
location ==
  IF customLocationName # NoName THEN customLocationName
  ELSE IF weather # NoData THEN ProviderName(weather)
  ELSE IF coordinates # NoCoords THEN "Loading weather data..."
  ELSE NoName

(***************************************************************************)
(* Starting a weather fetch: the fetcher given to useSWR and weatherFetcher.*)
(***************************************************************************)
\* a weatherFetcher that leaves the previous controller alone
AbortNothing(fs, ref) == fs

\* weatherFetcher aborts the controller in the ref
AbortPrevious(fs, ref) ==
  {IF f.fid = ref THEN [f EXCEPT !.aborted = TRUE] ELSE f : f \in fs}

\* the fetch SWR holds for a key (FETCH[key]), if any
Deduped(fs, k) == \E f \in fs : f.key = k /\ f.swr

\* a fetch that starts without the key being marked as validating
NotMarkedValidating(ca, k) == ca

\* SWR marks the key as validating when a fetch of it starts
Validating(ca, k) == Put(ca, k, [EntryOf(ca, k) EXCEPT !.isValidating = TRUE])

\* the identity of a new fetch and of its AbortController
NewFid(fs) ==
  CHOOSE n \in 1..(Cardinality(fs) + 1) : \A f \in fs : f.fid # n

\* a call of the SWR fetcher for key k: the previous controller is aborted,
\* a new controller is made and getWeatherFromCoords starts on its signal;
\* SWR records the new fetch as the one of the key
weatherFetcher(fs, ref, k, rc, viaMutate) ==
  {IF f.key = k THEN [f EXCEPT !.swr = FALSE] ELSE f : f \in AbortPrevious(fs, ref)}
    \cup {[fid |-> NewFid(fs), key |-> k, aborted |-> FALSE, swr |-> TRUE,
           retryCount |-> rc, viaMutate |-> viaMutate]}

\* the fetcher as SWR calls it: isPendingRequest is set, the fetch starts,
\* the ref holds the new controller and SWR marks the key as validating
CallFetcher(h, k, rc, viaMutate) ==
  [h EXCEPT !.st = [h.st EXCEPT !.isPendingRequest = TRUE],
            !.fs = weatherFetcher(h.fs, h.ref, k, rc, viaMutate),
            !.ref = NewFid(h.fs),
            !.ca = Validating(h.ca, k)]

NoRetry == [key |-> NoKey, retryCount |-> 0]

\* A fetch whose signal was aborted rejects in the microtasks that follow the
\* task that aborted it, before any other event is handled
AbortPending == \E f \in fetches : f.aborted
Quiet == ~AbortPending


(***************************************************************************)
(* The render React commits after a handler, and its effects.  A handler   *)
(* leaves a record h:                                                      *)
(*   st   the hook's React state                                           *)
(*   fs, ref, ca, rt, ft, hc  the fetches, the controller ref, the cache,  *)
(*        the retry timer, the fallback timer and whether the startup      *)
(*        effect has a cleanup registered                                  *)
(*   pc, tc, cc, sr  where checkAndGetLocation is, what the timer's        *)
(*        closure and the cleanup captured, the runs of the startup effect *)
(*   lo   the last outcome of each key (history)                           *)
(*   newError  it stored a new error object under the shown key            *)
(*   ts   its toasts                                                       *)
(***************************************************************************)
State == [coordinates |-> coordinates, isGettingLocation |-> isGettingLocation,
          customLocationName |-> customLocationName,
          currentRequestId |-> currentRequestId,
          isPendingRequest |-> isPendingRequest, geolocated |-> geolocated,
          userHasSearched |-> userHasSearched]

Same == [st |-> State, fs |-> fetches, ref |-> abortControllerRef, ca |-> cache,
         rt |-> retryTimer, ft |-> fallbackTimer, hc |-> hasCleanup,
         pc |-> startupPc, tc |-> timerClosure, cc |-> capturedController,
         sr |-> startupRuns,
         lo |-> lastOutcome, newError |-> FALSE, ts |-> {}]

\* a condition that only looks at geolocated
StartupConditionGeolocatedOnly(st) == ~st.geolocated

\* the condition under which the effect acts
StartupCondition(st) ==
  ~st.userHasSearched /\ st.coordinates = NoCoords /\ ~st.geolocated

\* the effect's body on the state st of the render: the fallback timer is
\* armed, its closure holds the values of the render, the cleanup captures
\* the controller in the ref, and checkAndGetLocation starts
StartupBody(h, st) ==
  [h EXCEPT !.ft = TRUE, !.hc = TRUE,
            !.tc = [coordinates |-> st.coordinates,
                    geolocated |-> st.geolocated,
                    userHasSearched |-> st.userHasSearched],
            !.cc = h.ref,
            !.pc = "query",
            !.sr = h.sr + 1]

\* the startup effect's dependencies [userHasSearched, geolocated] changed
DepsChanged(st) ==
  st.userHasSearched # userHasSearched \/ st.geolocated # geolocated

\* a cleanup without clearTimeout
KeepTimer(armed) == armed

\* the cleanup the startup effect returned: clearTimeout(fallbackTimer)
CleanupTimer(armed) == FALSE

\* an error toast without the Retry action
ErrorToastWithoutRetry(err, isNew) ==
  IF err # NoError /\ err # AbortError /\ isNew THEN {"fetch-error"} ELSE {}

\* the error effect: a toast with a Retry action for an error that is no abort
ErrorToast(err, isNew) ==
  IF err # NoError /\ err # AbortError /\ isNew THEN {"fetch-error-retry"} ELSE {}

\* Request ids are never generated twice, so a key with another request id
\* than the current one is never shown again: its cache entry is dropped
Live(ca, id) == [k \in {x \in DOMAIN ca : x[2] = id} |-> ca[k]]

\* the SWR effect of a new key revalidates it, reusing a fetch SWR holds
KeyEffect(h) ==
  LET k1 == SWRKey(h.st.coordinates, h.st.currentRequestId) IN
  IF k1 # key /\ k1 # NoKey /\ ~Deduped(h.fs, k1)
  THEN CallFetcher(h, k1, 0, FALSE)
  ELSE h

RenderHook(h0) ==
  \E h \in {KeyEffect(h0)} :
  \E k1 \in {SWRKey(h.st.coordinates, h.st.currentRequestId)} :
  \E e1 \in {EntryOf(h.ca, k1)} :
  LET st == h.st
      keyChanged == k1 # key
      cleanup == hasCleanup /\ DepsChanged(st)
      \* the startup effect runs again when its dependencies changed
      \* (it has run on mount before any of them can change)
      \* and acts when its condition holds in the new render
      rerun == mounted /\ DepsChanged(st) /\ StartupCondition(st)
  IN
  \E g \in {IF rerun
            THEN StartupBody([h EXCEPT
                   !.ft = IF cleanup THEN CleanupTimer(h.ft) ELSE h.ft], st)
            ELSE [h EXCEPT
                   !.ft = IF cleanup THEN CleanupTimer(h.ft) ELSE h.ft,
                   !.hc = IF cleanup THEN FALSE ELSE h.hc]} :
  /\ coordinates' = st.coordinates
  /\ isGettingLocation' = st.isGettingLocation
  /\ customLocationName' = st.customLocationName
  /\ currentRequestId' = st.currentRequestId
  /\ geolocated' = st.geolocated
  /\ userHasSearched' = st.userHasSearched
  /\ isPendingRequest' = st.isPendingRequest
  \* the cleanup aborts the controller it captured when the effect ran
  /\ fetches' = IF cleanup THEN AbortPrevious(h.fs, capturedController)
                ELSE h.fs
  /\ abortControllerRef' = h.ref
  /\ cache' = Live(h.ca, st.currentRequestId)
  /\ lastOutcome' = Live(h.lo, st.currentRequestId)
  /\ laggyData' = IF e1.data # NoData THEN e1.data ELSE laggyData
  \* the revalidators of the old key are gone with the key
  /\ retryTimer' = IF keyChanged THEN NoRetry ELSE h.rt
  /\ fallbackTimer' = g.ft
  /\ hasCleanup' = g.hc
  /\ startupPc' = g.pc
  /\ timerClosure' = g.tc
  /\ capturedController' = g.cc
  /\ startupRuns' = g.sr
  /\ toasts' = h.ts \cup
       ErrorToast(e1.error, h.newError \/ (keyChanged /\ e1.error # error))

\* a render of the hook alone: the hook does not touch localStorage, and
\* the state of the page that calls it is the page's own
Render(h0) ==
  /\ RenderHook(h0)
  /\ UNCHANGED <<storeVars, sourceVars, unitVars, pageVars>>

(***************************************************************************)
(* The initial state: the hook as useState and useRef create it, before    *)
(* the startup effect has run.                                             *)
(***************************************************************************)
Browsers ==
  {[permissions |-> TRUE, state |-> s, geolocation |-> TRUE] :
      s \in {"granted", "denied", "prompt", "error"}}
  \cup {[permissions |-> FALSE, state |-> "prompt", geolocation |-> g] :
      g \in BOOLEAN}

\* no operation of the weather source has been called
SourceUnused ==
  /\ operation = "none"
  /\ sourcePc = "idle"
  /\ query = <<>>
  /\ signal = [aborted |-> FALSE]
  /\ forecastData = <<>>
  /\ today = 0
  /\ fetchCalls = [started |-> 0, completed |-> 0]
  /\ settled = [kind |-> "pending", error |-> "none", value |-> <<>>]

\* the page's search as useState creates it, before any effect
PageUnused ==
  /\ searchQuery = <<>>
  /\ searchResults = <<>>
  /\ isSearching = FALSE
  /\ showDropdown = FALSE
  /\ debounceTimer = FALSE
  /\ searches = {}
  /\ nextSearch = 1
  /\ savedLocations = [favoriteLocations |-> <<>>, recentLocations |-> <<>>]
  /\ pageMounted = FALSE

\* useTemperatureUnit before its mount effect, nothing persisted
UnitUnused ==
  /\ unit = "metric"
  /\ savedUnit = "absent"
  /\ unitMounted = FALSE
  /\ variant = "effect"
  /\ beforeToggle = <<>>
  /\ celsius = 0
  /\ displayed = [value |-> 0, suffix |-> ""]

\* the hook before its first effect, whatever the browser
HookInit ==
  /\ coordinates = NoCoords
  /\ isGettingLocation = FALSE
  /\ customLocationName = NoName
  /\ currentRequestId = InitialRequestId
  /\ isPendingRequest = FALSE
  /\ geolocated = FALSE
  /\ userHasSearched = FALSE
  /\ abortControllerRef = 0
  /\ fetches = {}
  /\ cache = <<>>
  /\ laggyData = NoData
  /\ retryTimer = NoRetry
  /\ mounted = FALSE
  /\ startupPc = "idle"
  /\ fallbackTimer = FALSE
  /\ timerClosure = [coordinates |-> NoCoords, geolocated |-> FALSE,
                     userHasSearched |-> FALSE]
  /\ hasCleanup = FALSE
  /\ capturedController = 0
  /\ permissionWaiters = 0
  /\ positionWaiters = 0
  /\ abandonedWaiters = 0
  /\ nextRequestId = 1
  /\ toasts = {}
  /\ lastOutcome = <<>>
  /\ startupRuns = 0

Init ==
  /\ HookInit
  /\ PageUnused
  /\ browser \in Browsers
  \* nothing is stored yet and no store function has been called
  /\ recentStore = [kind |-> "absent", list |-> <<>>]
  /\ favoriteStore = [kind |-> "absent", list |-> <<>>]
  /\ returned = [kind |-> "none", value |-> FALSE, list |-> <<>>]
  /\ dropped = {}
  /\ calledFor = "none"
  /\ SourceUnused
  /\ UnitUnused

(***************************************************************************)
(* Coordinate selections.                                                  *)
(***************************************************************************)
\* a fresh request id: `prefix-${Date.now()}-${Math.random()...}`
FreshRequestId == nextRequestId

\* a fallback that selects nothing
SelectNothing(st) == st

\* setCoordinates(DEFAULT_COORDS); setCustomLocationName(DEFAULT_LOCATION_NAME)
SelectDefault(st) ==
  [st EXCEPT !.coordinates = DEFAULT_COORDS,
             !.customLocationName = DEFAULT_LOCATION_NAME]

\* the default selection of the startup effect and of the fallback timer:
\* a new request id, the pending flag and the default coordinates
SelectDefaultWithId(st) ==
  [SelectDefault(st) EXCEPT !.currentRequestId = FreshRequestId,
                            !.isPendingRequest = TRUE]

(***************************************************************************)
(* getUserLocation.                                                        *)
(***************************************************************************)
\* a permission check that reports "prompt" whatever the browser says
checkPermissionAlwaysPrompt == "prompt"

\* checkPermission: "prompt" without the permissions API or when the query
\* throws, else the state the query reports
checkPermission ==
  IF ~browser.permissions \/ browser.state = "error" THEN "prompt"
  ELSE browser.state

\* getUserLocation calls that have not finished
GeoCallsInProgress ==
  permissionWaiters + positionWaiters + abandonedWaiters
    + (IF startupPc = "query" THEN 1 ELSE 0)

\* getUserLocation from the permission check on, up to the position request
\* or, without navigator.geolocation, to the end
AfterPermission(h) ==
  /\ nextRequestId <= MaxRequestIds
  /\ nextRequestId' = nextRequestId + 1
  /\ IF browser.geolocation
     THEN /\ Render([h EXCEPT
                 !.st = [State EXCEPT !.isGettingLocation = TRUE,
                                      !.isPendingRequest = TRUE,
                                      !.currentRequestId = FreshRequestId],
                 !.ts = {"getting-location"}])
          /\ positionWaiters' = positionWaiters + 1
     ELSE /\ Render([h EXCEPT
                 !.st = [SelectDefault(State) EXCEPT
                                      !.isGettingLocation = FALSE,
                                      !.isPendingRequest = TRUE,
                                      !.currentRequestId = FreshRequestId],
                 !.ts = {"geolocation-unsupported"}])
          /\ UNCHANGED positionWaiters

\* a click on "use my location"
getUserLocation ==
  /\ Quiet
  /\ mounted
  /\ ~isGettingLocation
  /\ GeoCallsInProgress < MaxGeoCalls
  /\ IF browser.permissions
     THEN /\ permissionWaiters' = permissionWaiters + 1
          /\ Render(Same)
          /\ UNCHANGED <<positionWaiters, nextRequestId>>
     ELSE /\ AfterPermission(Same)
          /\ UNCHANGED permissionWaiters
  /\ UNCHANGED <<mounted,
                 abandonedWaiters, browser>>

\* the permission query of a getUserLocation call resolves
GeoPermissionResolved ==
  /\ Quiet
  /\ permissionWaiters > 0
  /\ permissionWaiters' = permissionWaiters - 1
  /\ IF checkPermission = "denied"
     THEN /\ Render([Same EXCEPT !.st = SelectDefault(State),
                                 !.ts = {"location-denied"}])
          /\ UNCHANGED <<positionWaiters, nextRequestId>>
     ELSE AfterPermission(Same)
  /\ UNCHANGED <<mounted,
                 abandonedWaiters, browser>>

\* one of the pending position requests is taken up
TakeWaiter(abandoned) ==
  IF abandoned
  THEN /\ abandonedWaiters > 0
       /\ abandonedWaiters' = abandonedWaiters - 1
       /\ UNCHANGED positionWaiters
  ELSE /\ positionWaiters > 0
       /\ positionWaiters' = positionWaiters - 1
       /\ UNCHANGED abandonedWaiters

\* getCurrentPosition resolves
GeoSuccess(abandoned) ==
  /\ Quiet
  /\ TakeWaiter(abandoned)
  /\ Render([Same EXCEPT
        !.st = [State EXCEPT !.coordinates = DEVICE_COORDS,
                             !.customLocationName = NoName,
                             !.geolocated = TRUE,
                             !.isGettingLocation = FALSE],
        !.ts = {"weather-updated-for-your-location"}])
  /\ UNCHANGED <<mounted,
                 permissionWaiters, browser, nextRequestId>>

\* getCurrentPosition rejects (denied at the prompt, unavailable, timeout)
GeoFailure(abandoned) ==
  /\ Quiet
  /\ TakeWaiter(abandoned)
  /\ Render([Same EXCEPT
        !.st = [SelectDefault(State) EXCEPT !.isGettingLocation = FALSE],
        !.ts = {"could-not-get-location"}])
  /\ UNCHANGED <<mounted,
                 permissionWaiters, browser, nextRequestId>>

(***************************************************************************)
(* The startup effect.                                                     *)
(***************************************************************************)
\* the effect runs on mount: checkAndGetLocation starts, the fallback timer
\* is armed and the cleanup captures the controller in the ref
StartupEffect ==
  /\ Quiet
  /\ ~mounted
  /\ mounted' = TRUE
  /\ StartupCondition(State)
  /\ IF browser.permissions
     THEN /\ Render([StartupBody(Same, State) EXCEPT !.pc = "query"])
          /\ UNCHANGED <<positionWaiters, nextRequestId>>
     ELSE /\ AfterPermission([StartupBody(Same, State) EXCEPT !.pc = "done"])
  /\ UNCHANGED <<permissionWaiters, abandonedWaiters, browser>>

\* the permission query of checkAndGetLocation resolves or throws
StartupPermissionResolved ==
  /\ Quiet
  /\ startupPc = "query"
  /\ IF browser.state = "denied" \/ browser.state = "error"
     THEN /\ nextRequestId <= MaxRequestIds
          /\ nextRequestId' = nextRequestId + 1
          /\ Render([Same EXCEPT
                !.pc = "done",
                !.st = SelectDefaultWithId(State),
                !.ts = IF browser.state = "denied"
                       THEN {"denied-using-default"}
                       ELSE {"permission-error-using-default"}])
          /\ UNCHANGED permissionWaiters
     ELSE \* getUserLocation() of the first render: its permission check
          /\ permissionWaiters' = permissionWaiters + 1
          /\ Render([Same EXCEPT !.pc = "done"])
          /\ UNCHANGED nextRequestId
  /\ UNCHANGED <<mounted, positionWaiters,
                 abandonedWaiters, browser>>

\* the check of the fallback timer's callback, on the values it captured
TimerCondition == StartupCondition(timerClosure)

\* the fallback timer fires
FallbackTimer ==
  /\ Quiet
  /\ fallbackTimer
  /\ IF TimerCondition
     THEN /\ nextRequestId <= MaxRequestIds
          /\ nextRequestId' = nextRequestId + 1
          /\ Render([Same EXCEPT !.st = SelectDefaultWithId(State),
                                 !.ft = FALSE,
                                 !.ts = {"unable-using-default"}])
     ELSE /\ Render([Same EXCEPT !.ft = FALSE])
          /\ UNCHANGED nextRequestId
  /\ UNCHANGED <<mounted,
                 permissionWaiters, positionWaiters, abandonedWaiters, browser>>

(***************************************************************************)
(* setLocation and retryFetch.                                             *)
(***************************************************************************)
\* the user picks a search result, a favorite or a recent location
setLocationHook(c, locationName) ==
  /\ Quiet
  /\ mounted
  /\ nextRequestId <= MaxRequestIds
  /\ nextRequestId' = nextRequestId + 1
  /\ RenderHook([Same EXCEPT
        !.st = [State EXCEPT !.isGettingLocation = FALSE,
                             !.isPendingRequest = TRUE,
                             !.currentRequestId = FreshRequestId,
                             !.coordinates = c,
                             !.customLocationName = locationName,
                             !.userHasSearched = TRUE],
        !.ts = (IF isGettingLocation THEN {"location-detection-canceled"}
                ELSE {}) \cup {"weather-updated"}])
  \* history: the position requests pending now are the abandoned ones
  /\ abandonedWaiters' = abandonedWaiters + positionWaiters
  /\ positionWaiters' = 0
  /\ UNCHANGED <<mounted,
                 permissionWaiters, browser>>

\* setLocation called for its effect on the hook alone
setLocation(c, locationName) ==
  /\ setLocationHook(c, locationName)
  /\ UNCHANGED <<storeVars, sourceVars, unitVars, pageVars>>

\* mutate() of useSWR, bound to the key of the last render: SWR drops the
\* fetch it holds for the key and calls the fetcher again; without a key it
\* resolves at once
Mutate(h) ==
  IF key = NoKey THEN [h EXCEPT !.ts = h.ts \cup {"weather-data-refreshed"}]
  ELSE CallFetcher(h, key, 0, TRUE)

\* retryFetch has no precondition of its own: the page's buttons and the
\* error toast's action call it once the hook is mounted and no other
\* JavaScript is running
retryFetchCallable == Quiet /\ mounted

\* a retryFetch that only calls mutate(), under the request id it had
retryFetchMutateOnly ==
  /\ retryFetchCallable
  /\ Render(Mutate([Same EXCEPT
        !.st = [State EXCEPT !.isPendingRequest = TRUE],
        !.ts = {"refreshing"}]))
  /\ UNCHANGED <<mounted, permissionWaiters, positionWaiters, abandonedWaiters,
                 browser, nextRequestId>>

\* a click on a retry or refresh button, or on the error toast's Retry
retryFetch ==
  /\ retryFetchCallable
  /\ nextRequestId <= MaxRequestIds
  /\ nextRequestId' = nextRequestId + 1
  /\ Render(Mutate([Same EXCEPT
        !.st = [State EXCEPT !.isPendingRequest = TRUE,
                             !.currentRequestId = FreshRequestId],
        !.ts = {"refreshing"}]))
  /\ UNCHANGED <<mounted,
                 permissionWaiters, positionWaiters, abandonedWaiters, browser>>

(***************************************************************************)
(* The weather fetch: getWeatherFromCoords under the SWR fetcher.          *)
(***************************************************************************)
\* how getWeatherFromCoords can end: on an aborted signal it rejects with the
\* AbortError; otherwise it returns the snapshot, or throws when one of its
\* two calls fails, which weatherFetcher turns into a new Error
Outcomes(f) ==
  IF f.aborted THEN {AbortError} ELSE {"ok", FetchError}

\* shouldRetryOnError of the SWR options
shouldRetryOnError(err) == err # AbortError

\* results stored under the key that is shown when the fetch ends
ShownKey(f) == key

\* the key under which SWR stores the result of a fetch: the key the fetch
\* was started for
ResultKey(f) == f.key

\* the snapshot getWeatherFromCoords returns: the weather at the coordinates
\* the fetch was started with
Snapshot(f) == f.key[1]

\* a cache without keys: every outcome lands in the entry that is shown
StoreInShownEntry(ca, f, out) ==
  IF key = NoKey THEN ca
  ELSE IF out = "ok"
  THEN Put(ca, key, [data |-> Snapshot(f), error |-> NoError,
                     isValidating |-> FALSE])
  ELSE Put(ca, key, [EntryOf(ca, key) EXCEPT !.error = out,
                                             !.isValidating = FALSE])

\* SWR stores the outcome: data only from the fetch it holds for the key,
\* an error from any fetch of the key
Store(ca, f, out) ==
  LET k == ResultKey(f) IN
  IF k = NoKey THEN ca
  ELSE IF out = "ok"
  THEN IF f.swr
       THEN Put(ca, k, [data |-> Snapshot(f), error |-> NoError,
                        isValidating |-> FALSE])
       ELSE ca
  ELSE Put(ca, k, [EntryOf(ca, k) EXCEPT !.error = out,
                                         !.isValidating = FALSE])

\* SWR schedules an error retry only for the key it shows
ScheduleRetry(f, out) ==
  IF /\ out # "ok"
     /\ ResultKey(f) = key
     /\ shouldRetryOnError(out)
     /\ f.retryCount + 1 <= errorRetryCount
  THEN [key |-> key, retryCount |-> f.retryCount + 1]
  ELSE retryTimer

\* a fetcher wrapper without the finally: the pending flag is never cleared
FetcherWithoutFinally(st) == st

\* the finally of the fetcher given to useSWR
FetcherFinally(st) == [st EXCEPT !.isPendingRequest = FALSE]

FetchComplete(f, out) ==
  /\ f \in fetches
  /\ out \in Outcomes(f)
  /\ Render([Same EXCEPT
        !.st = FetcherFinally(State),
        !.fs = fetches \ {f},
        !.ca = Store(cache, f, out),
        !.rt = ScheduleRetry(f, out),
        !.newError = (out # "ok" /\ ResultKey(f) = key),
        !.lo = Put(lastOutcome, f.key, out),
        !.ts = IF f.viaMutate THEN {"weather-data-refreshed"} ELSE {}])
  /\ UNCHANGED <<mounted,
                 permissionWaiters, positionWaiters, abandonedWaiters, browser,
                 nextRequestId>>

\* SWR revalidates the shown key with dedupe: the fetcher is called unless
\* SWR holds a fetch of the key
Revalidate(h, rc) ==
  IF Deduped(h.fs, key) THEN h ELSE CallFetcher(h, key, rc, FALSE)

\* the error retry timer of SWR fires (errorRetryInterval, errorRetryCount)
ErrorRetry ==
  /\ Quiet
  /\ retryTimer.key # NoKey
  /\ retryTimer.key = key
  /\ Render(Revalidate([Same EXCEPT !.rt = NoRetry], retryTimer.retryCount))
  /\ UNCHANGED <<mounted,
                 permissionWaiters, positionWaiters, abandonedWaiters, browser,
                 nextRequestId>>

\* refreshInterval and revalidateOnReconnect: SWR refreshes the shown key
Refresh ==
  /\ Quiet
  /\ key # NoKey
  /\ ~Deduped(fetches, key)
  /\ Render(Revalidate(Same, 0))
  /\ UNCHANGED <<mounted,
                 permissionWaiters, positionWaiters, abandonedWaiters, browser,
                 nextRequestId>>

(***************************************************************************)
(* The specification.                                                      *)
(***************************************************************************)
\* the names the page passes to setLocation
LocationNames(c) == {NameOf(c)}

\* the fetch in flight ends, with the snapshot or with a failure
FetchSettles ==
  /\ Quiet
  /\ \E f \in fetches : \E out \in {"ok", FetchError} : FetchComplete(f, out)

\* an aborted fetch rejects with the AbortError
AbortedFetchRejects ==
  \E f \in fetches : f.aborted /\ FetchComplete(f, AbortError)

Next ==
  \/ StartupEffect
  \/ StartupPermissionResolved
  \/ FallbackTimer
  \/ getUserLocation
  \/ GeoPermissionResolved
  \/ \E abandoned \in BOOLEAN : GeoSuccess(abandoned)
  \/ \E abandoned \in BOOLEAN : GeoFailure(abandoned)
  \/ \E c \in SearchCoords : \E n \in LocationNames(c) : setLocation(c, n)
  \/ retryFetch
  \/ FetchSettles
  \/ AbortedFetchRejects
  \/ ErrorRetry
  \/ Refresh

Spec == Init /\ [][Next]_vars

(***************************************************************************)
(* What the page shows, and the steps the claims speak about.              *)
(***************************************************************************)
\* the status of the request the coordinator shows
Status ==
  IF coordinates = NoCoords THEN "idle"
  ELSE IF loading THEN "pending"
  ELSE IF error # NoError THEN "error"
  ELSE "ready"

\* the page shows the error panel
UserVisibleError == ~loading /\ error # NoError /\ error # AbortError

\* the fetches that end in this step
Ended == {f \in fetches : \A g \in fetches' : g.fid # f.fid}

\* history: how the last completed fetch of a key ended
OutcomeOf(lo, k) == IF k \in DOMAIN lo THEN lo[k] ELSE "none"

\* the fetch of the shown key that is in flight
ActiveFetches == {f \in fetches : f.key = key /\ ~f.aborted}

\* the toasts of the paths that set the coordinates
SelectionToasts ==
  {"weather-updated", "weather-updated-for-your-location",
   "could-not-get-location", "location-denied", "geolocation-unsupported",
   "denied-using-default", "permission-error-using-default",
   "unable-using-default"}

\* this step sets the coordinates
SelectionStep == toasts' \cap SelectionToasts # {}

\* the current request id has been part of the key of a fetch
RequestIdUsed == coordinates # NoCoords

(***************************************************************************)
(* C1: whenever the coordinator is not loading and shows no error, the     *)
(* snapshot it shows was fetched for the selected coordinates.             *)
(***************************************************************************)
C1_SnapshotIsForSelectedCoordinates ==
  (~loading /\ error = NoError) => weather = coordinates

\* the coordinator is ready on a second selection, a search result
C1_Witness ==
  /\ ~loading /\ error = NoError
  /\ coordinates \in SearchCoords /\ weather = coordinates
  /\ nextRequestId > 2

(***************************************************************************)
(* C2: the completion of a fetch whose request id is not the current one   *)
(* leaves the shown snapshot, the shown error and the status unchanged.    *)
(***************************************************************************)
C2_StaleCompletionChangesNothing ==
  [][(\E f \in Ended : f.key[2] # currentRequestId) =>
       /\ weather' = weather
       /\ error' = error
       /\ Status' = Status]_vars

\* the fetch retryFetch started through mutate(), for the key and the request
\* id of the render before, has just ended while the fetch of the new request
\* id is in flight and a snapshot is shown
C2_Witness ==
  /\ "weather-data-refreshed" \in toasts
  /\ ActiveFetches # {}
  /\ ~isPendingRequest
  /\ weather # NoData

(***************************************************************************)
(* C3: at most one fetch is in flight whose signal has not been aborted.   *)
(***************************************************************************)
C3_AtMostOneLiveFetch ==
  Cardinality({f \in fetches : ~f.aborted}) <= 1

\* a new fetch has started and the one before it is aborted
C3_Witness ==
  /\ \E f \in fetches : f.aborted
  /\ \E f \in fetches : ~f.aborted

(***************************************************************************)
(* C4: every step that sets the coordinates comes with a request id that   *)
(* no earlier selection or fetch has used.                                 *)
(***************************************************************************)
C4_SelectionHasFreshRequestId ==
  [][SelectionStep =>
       ~(currentRequestId' = currentRequestId /\ RequestIdUsed)]_vars

(***************************************************************************)
(* C5: the completion of a position request that was pending when          *)
(* setLocation ran changes neither the coordinates nor the location name.  *)
(***************************************************************************)
C5_AbandonedGeolocationChangesNothing ==
  [][abandonedWaiters' < abandonedWaiters =>
       /\ coordinates' = coordinates
       /\ customLocationName' = customLocationName]_vars

(***************************************************************************)
(* C6: the rejection of an aborted fetch changes no shown error, shows no  *)
(* error panel, emits no error toast and schedules no retry.               *)
(***************************************************************************)
C6_AbortIsSilent ==
  [][(\E f \in Ended : f.aborted) =>
       /\ error' = error
       /\ (UserVisibleError' => UserVisibleError)
       /\ "fetch-error-retry" \notin toasts'
       /\ retryTimer' = retryTimer]_vars

\* an aborted fetch has rejected: the fetch that replaced it is in flight
\* and the pending flag is cleared
C6_Witness ==
  /\ ActiveFetches # {}
  /\ ~isPendingRequest
  /\ ~AbortPending
  /\ error # AbortError
  /\ ~UserVisibleError

(***************************************************************************)
(* C7: when the fetch of the shown key fails without being aborted, the    *)
(* coordinator shows the error and emits the error toast with Retry.       *)
(***************************************************************************)
C7_FailureIsShown ==
  [][(\E f \in Ended : ~f.aborted /\ f.key = key /\
                       OutcomeOf(lastOutcome', f.key) = FetchError) =>
       /\ error' = FetchError
       /\ "fetch-error-retry" \in toasts']_vars

\* the fetch of the shown key has just failed
C7_Witness ==
  /\ error = FetchError
  /\ "fetch-error-retry" \in toasts
  /\ fetches = {}

(***************************************************************************)
(* C8: while the fetch of the selected coordinates is in flight, loading   *)
(* is true, also after the fetch it replaced has rejected.                 *)
(***************************************************************************)
C8_LoadingUntilFetchCompletes ==
  ActiveFetches # {} => loading

\* the replaced fetch has rejected and cleared the pending flag, an earlier
\* snapshot is still there, and only isValidating keeps loading true
C8_Witness ==
  /\ ActiveFetches # {}
  /\ ~isPendingRequest /\ ~isGettingLocation
  /\ weather # NoData /\ weather # coordinates
  /\ loading

(***************************************************************************)
(* C9: loading is true exactly when there is neither snapshot nor error,   *)
(* or the device location is being resolved, or a fetch is pending, or the *)
(* last fetch of the shown key was cancelled.                              *)
(***************************************************************************)
C9_LoadingIsTheDisjunction ==
  loading <=>
    \/ (weather = NoData /\ error = NoError)
    \/ isGettingLocation
    \/ (isValidating \/ isPendingRequest)
    \/ OutcomeOf(lastOutcome, key) = AbortError

\* loading only because the device location is being resolved
C9_Witness ==
  /\ loading
  /\ isGettingLocation
  /\ weather # NoData
  /\ ~isValidating /\ ~isPendingRequest

(***************************************************************************)
(* C10: once geolocation has succeeded or the user has picked a location,  *)
(* the fallback timer is disarmed and its notification is not emitted.     *)
(***************************************************************************)
C10_NoFallbackAfterRealSelection ==
  (geolocated \/ userHasSearched) =>
    /\ ~fallbackTimer
    /\ "unable-using-default" \notin toasts

\* the cleanup of the startup effect has run after a real selection
C10_Witness ==
  /\ mounted
  /\ geolocated \/ userHasSearched
  /\ ~hasCleanup
  /\ ~fallbackTimer

(***************************************************************************)
(* C11: the startup effect starts the automatic geolocation and arms the   *)
(* fallback timer at most once, and never in a step that ends with         *)
(* userHasSearched set.                                                    *)
(***************************************************************************)
C11_StartupRunsOnce ==
  [][/\ startupRuns' <= 1
     /\ (userHasSearched' => startupRuns' = startupRuns)]_vars

\* the effect has run once, the user has picked a location since, and the
\* render of that selection ran the cleanup without starting the effect again
C11_Witness ==
  /\ startupRuns = 1
  /\ userHasSearched
  /\ ~hasCleanup
  /\ ~fallbackTimer

\* the browser reports the geolocation permission as denied
PermissionDenied == browser.permissions /\ browser.state = "denied"

\* a permission check ends in this step: the one of the startup effect or
\* the one of a getUserLocation call
PermissionCheckEnds ==
  \/ startupPc = "query" /\ startupPc' = "done"
  \/ permissionWaiters' < permissionWaiters

(***************************************************************************)
(* C12: with the permission denied no position request is ever issued, and *)
(* every permission check, at startup and in getUserLocation, ends with    *)
(* the default coordinates selected and a notification.                    *)
(***************************************************************************)
C12_DeniedSelectsDefault ==
  [][PermissionDenied =>
       /\ positionWaiters' = 0 /\ abandonedWaiters' = 0
       /\ "getting-location" \notin toasts'
       /\ PermissionCheckEnds =>
            /\ coordinates' = DEFAULT_COORDS
            /\ customLocationName' = DEFAULT_LOCATION_NAME
            /\ toasts' \cap {"location-denied", "denied-using-default"} # {}]_vars

\* a click on "use my location" after a search has ended in the denied path
C12_Witness ==
  /\ PermissionDenied
  /\ userHasSearched
  /\ "location-denied" \in toasts
  /\ coordinates = DEFAULT_COORDS

(***************************************************************************)
(* The session of a user who takes no action: only the startup effect, the *)
(* browser's answers, the timers and the network act.  The effect runs on  *)
(* mount, the browser answers the permission query and a fetch ends, so    *)
(* these steps are taken when they stay enabled; nothing is assumed about  *)
(* when the timers fire.                                                   *)
(***************************************************************************)
UnattendedNext ==
  \/ StartupEffect
  \/ StartupPermissionResolved
  \/ FallbackTimer
  \/ GeoPermissionResolved
  \/ GeoSuccess(FALSE)
  \/ GeoFailure(FALSE)
  \/ FetchSettles
  \/ AbortedFetchRejects
  \/ ErrorRetry
  \/ Refresh

UnattendedSpec ==
  /\ Init
  /\ [][UnattendedNext]_vars
  /\ WF_vars(StartupEffect)
  /\ WF_vars(StartupPermissionResolved)
  /\ WF_vars(FetchSettles)
  /\ WF_vars(AbortedFetchRejects)

\* the coordinator is ready or in error for the default coordinates
SettledOnDefault ==
  /\ coordinates = DEFAULT_COORDS
  /\ Status \in {"ready", "error"}

(***************************************************************************)
(* C13: with the permission denied and no user action the coordinator      *)
(* eventually is ready or in error for the default coordinates, and no     *)
(* position request is ever pending.                                       *)
(***************************************************************************)
C13_DeniedStartupSettlesOnDefault ==
  /\ [](PermissionDenied => positionWaiters = 0 /\ permissionWaiters = 0)
  /\ (PermissionDenied ~> SettledOnDefault)

\* the denied startup has ended with the snapshot of the default coordinates
C13_Witness ==
  /\ PermissionDenied
  /\ startupPc = "done"
  /\ SettledOnDefault
  /\ weather = DEFAULT_COORDS

\* this step is a call of retryFetch
RetryStep == "refreshing" \in toasts'

(***************************************************************************)
(* C14: retryFetch leaves the coordinates and the location name unchanged, *)
(* changes the request id and, when coordinates are selected, leaves a     *)
(* fetch in flight for them under the new request id; it can be called     *)
(* whenever the coordinator is ready or in error.                          *)
(***************************************************************************)
C14_RetryRefetchesSameCoordinates ==
  /\ [][RetryStep =>
         /\ coordinates' = coordinates
         /\ customLocationName' = customLocationName
         /\ currentRequestId' # currentRequestId
         /\ coordinates # NoCoords =>
              \E f \in fetches' :
                 /\ f.key = <<coordinates, currentRequestId'>>
                 /\ ~f.aborted]_vars
  /\ [](Status \in {"ready", "error"} => retryFetchCallable)

\* retryFetch has just run on selected coordinates: the fetch under the new
\* request id is in flight
C14_Witness ==
  /\ "refreshing" \in toasts
  /\ coordinates # NoCoords
  /\ ActiveFetches # {}
  /\ currentRequestId + 1 = nextRequestId

\* in this step a getUserLocation call ends without a position: the position
\* request failed or the browser has no geolocation
GeolocationFails ==
  toasts' \cap {"could-not-get-location", "geolocation-unsupported"} # {}

(***************************************************************************)
(* C15: when a getUserLocation call ends without a position and the user   *)
(* has picked no location, the default coordinates and name are selected,  *)
(* isGettingLocation is cleared, and the page shows no error other than    *)
(* one that was already there.                                             *)
(***************************************************************************)
C15_GeolocationFailureFallsBack ==
  [][GeolocationFails /\ ~userHasSearched =>
       /\ coordinates' = DEFAULT_COORDS
       /\ customLocationName' = DEFAULT_LOCATION_NAME
       /\ ~isGettingLocation'
       /\ (UserVisibleError' => error' = error)]_vars

\* the position request has just failed and the default is being fetched
C15_Witness ==
  /\ "could-not-get-location" \in toasts
  /\ ~userHasSearched
  /\ coordinates = DEFAULT_COORDS
  /\ ~isGettingLocation
  /\ Status = "pending"

(***************************************************************************)
(* The location store (lib/services/locationStorage.ts): the recent and    *)
(* the favorite locations, each a JSON list under its own localStorage     *)
(* key.                                                                    *)
(***************************************************************************)
MAX_RECENT_LOCATIONS == 5

\* what localStorage can hold under a key: nothing, text JSON.parse
\* rejects, the JSON of something that is not a list (null, an object), or
\* the JSON of a list of saved locations
Absent == [kind |-> "absent", list |-> <<>>]
Unparseable == [kind |-> "unparseable", list |-> <<>>]
NotAList == [kind |-> "nonlist", list |-> <<>>]
\* JSON.stringify of a list of saved locations, which JSON.parse gives back
stringify(list) == [kind |-> "list", list |-> list]

\* the values a store function hands back: an array or what JSON.parse made
\* of a text that is not a list
Array(list) == [isArray |-> TRUE, list |-> list]
NotArray == [isArray |-> FALSE, list |-> <<>>]

\* what a call gave its caller: nothing (void), a boolean, or a TypeError
NothingReturned == [kind |-> "none", value |-> FALSE, list |-> <<>>]
Void == [kind |-> "void", value |-> FALSE, list |-> <<>>]
Boolean(b) == [kind |-> "boolean", value |-> b, list |-> <<>>]
TypeError == [kind |-> "throws", value |-> FALSE, list |-> <<>>]
\* a getter handing back an array or what is not one
Listed(got) ==
  [kind |-> IF got.isArray THEN "array" ELSE "notarray", value |-> FALSE,
   list |-> got.list]

\* the candidates the page hands to the store; state "" stands for a
\* candidate without a state
LocationCandidates ==
  { [id |-> "new-york-ny-us", name |-> "New York", state |-> "NY",
     country |-> "US"],
    [id |-> "london-gb", name |-> "London", state |-> "", country |-> "GB"],
    [id |-> "paris-fr", name |-> "Paris", state |-> "", country |-> "FR"],
    [id |-> "austin-tx-us", name |-> "Austin", state |-> "TX",
     country |-> "US"],
    [id |-> "tokyo-jp", name |-> "Tokyo", state |-> "", country |-> "JP"],
    [id |-> "lima-pe", name |-> "Lima", state |-> "", country |-> "PE"] }

LocationIds == {candidate.id : candidate \in LocationCandidates}

\* the candidates the user also marks as favorites
FavoriteCandidates ==
  {candidate \in LocationCandidates :
     candidate.id \in {"new-york-ny-us", "london-gb", "paris-fr"}}

\* the parts formatLocationDisplay joins with ", "
formatLocationDisplay(candidate) ==
  <<candidate.name>>
    \o (IF candidate.state # "" THEN <<candidate.state>> ELSE <<>>)
    \o <<candidate.country>>

\* the entry saved for a candidate (its coordinates and the time of saving
\* are carried along and read by no store function)
savedLocation(candidate) ==
  [id |-> candidate.id, displayName |-> formatLocationDisplay(candidate)]

\* a filter that lets every entry pass
WithoutNothing(list, id) == list

\* list.filter(loc => loc.id !== id)
WithoutId(list, id) ==
  LET Other(loc) == loc.id # id IN SelectSeq(list, Other)

\* list.some(loc => loc.id === id)
SomeId(list, id) == \E i \in 1..Len(list) : list[i].id = id

\* list.slice(0, n)
slice(list, n) == SubSeq(list, 1, IF Len(list) < n THEN Len(list) ELSE n)

\* the ids of a list, in order
Ids(list) == [i \in 1..Len(list) |-> list[i].id]

\* the ids of the entries of one list that have no entry in the other
Dropped(before, after) ==
  {before[i].id : i \in 1..Len(before)} \ {after[i].id : i \in 1..Len(after)}

\* JSON.parse outside the try: the text it rejects is not turned into []
getRecentLocationsUnguarded(stored) ==
  IF stored.kind = "absent" THEN Array(<<>>)
  ELSE IF stored.kind = "list" THEN Array(stored.list)
  ELSE NotArray

getRecentLocations(stored) ==
  IF stored.kind = "absent" THEN Array(<<>>)
  ELSE IF stored.kind = "unparseable" THEN Array(<<>>)
  ELSE IF stored.kind = "nonlist" THEN NotArray
  ELSE Array(stored.list)

\* the list kept whole instead of slice(0, MAX_RECENT_LOCATIONS)
RecentsUnlimited(updated) == updated

RecentsLimited(updated) == slice(updated, MAX_RECENT_LOCATIONS)

\* the new entry put last instead of first
RecentsAppended(saved, filtered) == Append(filtered, saved)

RecentsUpdated(saved, filtered) == <<saved>> \o filtered

\* the value under the recents key after addToRecentLocations(location)
addToRecentLocations(stored, candidate, writeFails) ==
  LET recentLocations == getRecentLocations(stored)
      filteredLocations == WithoutId(recentLocations.list, candidate.id)
      updatedLocations ==
        RecentsUpdated(savedLocation(candidate), filteredLocations)
      limitedLocations == RecentsLimited(updatedLocations)
  IN  \* filter is not a function of what is not an array: caught and logged
      IF ~recentLocations.isArray THEN stored
      \* setItem throws: caught and logged
      ELSE IF writeFails THEN stored
      ELSE stringify(limitedLocations)

removeFromRecentLocations(stored, locationId, writeFails) ==
  LET recentLocations == getRecentLocations(stored)
      updatedLocations == WithoutId(recentLocations.list, locationId)
  IN  IF ~recentLocations.isArray THEN stored
      ELSE IF writeFails THEN stored
      ELSE stringify(updatedLocations)

getFavoriteLocations(stored) ==
  IF stored.kind = "absent" THEN Array(<<>>)
  ELSE IF stored.kind = "unparseable" THEN Array(<<>>)
  ELSE IF stored.kind = "nonlist" THEN NotArray
  ELSE Array(stored.list)

\* the new entry put first
FavoritesPrepended(favoriteLocations, saved) == <<saved>> \o favoriteLocations

FavoritesUpdated(favoriteLocations, saved) == Append(favoriteLocations, saved)

\* does addToFavoriteLocations(location) call setItem
addToFavoriteLocationsWrites(stored, candidate) ==
  LET favoriteLocations == getFavoriteLocations(stored)
  IN  /\ favoriteLocations.isArray
      /\ ~SomeId(favoriteLocations.list, candidate.id)

\* the value under the favorites key after addToFavoriteLocations(location)
addToFavoriteLocations(stored, candidate, writeFails) ==
  LET favoriteLocations == getFavoriteLocations(stored)
      updatedLocations ==
        FavoritesUpdated(favoriteLocations.list, savedLocation(candidate))
  IN  IF ~addToFavoriteLocationsWrites(stored, candidate) THEN stored
      ELSE IF writeFails THEN stored
      ELSE stringify(updatedLocations)

\* nothing taken out of the favorites
FavoritesKept(stored, locationId, writeFails) == stored

removeFromFavoriteLocations(stored, locationId, writeFails) ==
  LET favoriteLocations == getFavoriteLocations(stored)
      updatedLocations == WithoutId(favoriteLocations.list, locationId)
  IN  IF ~favoriteLocations.isArray THEN stored
      ELSE IF writeFails THEN stored
      ELSE stringify(updatedLocations)

\* some is not a function of what is not an array, and nothing catches it
isLocationFavorite(stored, locationId) ==
  LET favoriteLocations == getFavoriteLocations(stored)
  IN  IF ~favoriteLocations.isArray THEN TypeError
      ELSE Boolean(SomeId(favoriteLocations.list, locationId))

\* toggleLocationFavorite(location): the value under the favorites key
\* after the call and what the call returns
toggleLocationFavorite(stored, candidate, writeFails) ==
  LET isFavorite == isLocationFavorite(stored, candidate.id)
  IN  IF isFavorite = TypeError
      THEN [stored |-> stored, returned |-> TypeError]
      ELSE IF isFavorite.value
      THEN [stored |-> removeFromFavoriteLocations(stored, candidate.id,
                                                   writeFails),
            returned |-> Boolean(FALSE)]
      ELSE [stored |-> addToFavoriteLocations(stored, candidate, writeFails),
            returned |-> Boolean(TRUE)]

(***************************************************************************)
(* The calls the page makes of the store, one action per call.  A write    *)
(* to localStorage can fail (the quota is exceeded, storage is disabled).  *)
(***************************************************************************)
\* addToRecentLocations writing under the key of the favorites
RecordRecentUnderFavoritesKey(candidate, writeFails) ==
  /\ favoriteStore' =
       addToRecentLocations(favoriteStore, candidate, writeFails)
  /\ returned' = Void
  /\ dropped' = {}
  /\ calledFor' = "recents"
  /\ UNCHANGED <<recentStore, hookVars, sourceVars, unitVars, pageVars>>

\* the call of addToRecentLocations in handleLocationSelect
RecordRecentStore(candidate, writeFails) ==
  /\ recentStore' = addToRecentLocations(recentStore, candidate, writeFails)
  /\ returned' = Void
  \* after a write the first entry is the new one, an old one of its id is
  \* replaced
  /\ dropped' = IF getRecentLocations(recentStore).isArray /\ ~writeFails
                THEN Dropped(getRecentLocations(recentStore).list,
                             Tail(recentStore'.list))
                ELSE {}
  /\ calledFor' = "recents"
  /\ UNCHANGED favoriteStore

\* handleLocationSelect, for its effect on the store alone
RecordRecent(candidate, writeFails) ==
  /\ RecordRecentStore(candidate, writeFails)
  /\ UNCHANGED <<hookVars, sourceVars, unitVars, pageVars>>

RemoveRecent(locationId, writeFails) ==
  /\ recentStore' =
       removeFromRecentLocations(recentStore, locationId, writeFails)
  /\ returned' = Void
  /\ dropped' = Dropped(getRecentLocations(recentStore).list,
                        getRecentLocations(recentStore').list)
  /\ calledFor' = "recents"
  /\ UNCHANGED <<favoriteStore, hookVars, sourceVars, unitVars, pageVars>>

AddFavorite(candidate, writeFails) ==
  /\ favoriteStore' =
       addToFavoriteLocations(favoriteStore, candidate, writeFails)
  /\ returned' = Void
  /\ dropped' = Dropped(getFavoriteLocations(favoriteStore).list,
                        getFavoriteLocations(favoriteStore').list)
  /\ calledFor' = "favorites"
  /\ UNCHANGED <<recentStore, hookVars, sourceVars, unitVars, pageVars>>

\* handleRemoveFavorite
RemoveFavorite(locationId, writeFails) ==
  /\ favoriteStore' =
       removeFromFavoriteLocations(favoriteStore, locationId, writeFails)
  /\ returned' = Void
  /\ dropped' = Dropped(getFavoriteLocations(favoriteStore).list,
                        getFavoriteLocations(favoriteStore').list)
  /\ calledFor' = "favorites"
  /\ UNCHANGED <<recentStore, hookVars, sourceVars, unitVars, pageVars>>

\* handleToggleFavorite
ToggleFavorite(candidate, writeFails) ==
  LET result == toggleLocationFavorite(favoriteStore, candidate, writeFails)
  IN  /\ favoriteStore' = result.stored
      /\ returned' = result.returned
      /\ dropped' = Dropped(getFavoriteLocations(favoriteStore).list,
                            getFavoriteLocations(favoriteStore').list)
      /\ calledFor' = "favorites"
  /\ UNCHANGED <<recentStore, hookVars, sourceVars, unitVars, pageVars>>

\* the favorite star of a location
IsFavorite(locationId) ==
  /\ returned' = isLocationFavorite(favoriteStore, locationId)
  /\ dropped' = {}
  /\ calledFor' = "favorites"
  /\ UNCHANGED <<recentStore, favoriteStore, hookVars, sourceVars, unitVars,
                 pageVars>>

\* loadSavedLocations: the recents shown under the search box
ListRecent ==
  /\ returned' = Listed(getRecentLocations(recentStore))
  /\ dropped' = {}
  /\ calledFor' = "recents"
  /\ UNCHANGED <<recentStore, favoriteStore, hookVars, sourceVars, unitVars,
                 pageVars>>

\* loadSavedLocations: the favorites shown under the search box
ListFavorites ==
  /\ returned' = Listed(getFavoriteLocations(favoriteStore))
  /\ dropped' = {}
  /\ calledFor' = "favorites"
  /\ UNCHANGED <<recentStore, favoriteStore, hookVars, sourceVars, unitVars,
                 pageVars>>

\* what the two keys can hold when the page is opened
StoredContents == {Absent, Unparseable, NotAList}

StoreInit ==
  /\ HookInit
  /\ PageUnused
  /\ browser \in {b \in Browsers : ~b.permissions /\ ~b.geolocation}
  /\ recentStore \in StoredContents
  /\ favoriteStore \in StoredContents
  /\ returned = NothingReturned
  /\ dropped = {}
  /\ calledFor = "none"
  /\ SourceUnused
  /\ UnitUnused

\* the recents alone, with enough candidates to fill the list and more
RecentsNext ==
  \/ \E candidate \in LocationCandidates : \E writeFails \in BOOLEAN :
       RecordRecent(candidate, writeFails)
  \/ \E locationId \in LocationIds : \E writeFails \in BOOLEAN :
       RemoveRecent(locationId, writeFails)

RecentsSpec == StoreInit /\ [][RecentsNext]_vars

\* the recents and the favorites together, for the candidates the user
\* both selects and marks as favorites
StoreNext ==
  \/ \E candidate \in FavoriteCandidates : \E writeFails \in BOOLEAN :
       RecordRecent(candidate, writeFails)
  \/ \E candidate \in FavoriteCandidates : \E writeFails \in BOOLEAN :
       RemoveRecent(candidate.id, writeFails)
  \/ \E candidate \in FavoriteCandidates : \E writeFails \in BOOLEAN :
       AddFavorite(candidate, writeFails)
  \/ \E candidate \in FavoriteCandidates : \E writeFails \in BOOLEAN :
       RemoveFavorite(candidate.id, writeFails)
  \/ \E candidate \in FavoriteCandidates : \E writeFails \in BOOLEAN :
       ToggleFavorite(candidate, writeFails)
  \/ \E candidate \in FavoriteCandidates : IsFavorite(candidate.id)
  \/ ListRecent
  \/ ListFavorites

StoreSpec == StoreInit /\ [][StoreNext]_vars

(***************************************************************************)
(* Helpers of the claims about the location store.                         *)
(***************************************************************************)
\* the recents and the favorites as a caller reads them
RecentList == getRecentLocations(recentStore).list
FavoriteList == getFavoriteLocations(favoriteStore).list

\* the positions of the entries of a list that have the id
PositionsOf(list, id) == {i \in 1..Len(list) : list[i].id = id}

\* C16: addToRecentLocations with a candidate whose id is already stored
\* leaves exactly one entry of that id, the first one, and keeps the other
\* entries in their order; and from every stored content, calling it twice
\* in a row with the same candidate gives the same list of ids as calling
\* it once (the writes taking effect).
C16_RecordRecentMovesToFront ==
  /\ [][\A candidate \in LocationCandidates :
          /\ SomeId(RecentList, candidate.id)
          /\ RecordRecent(candidate, FALSE)
          => /\ recentStore'.kind = "list"
             /\ PositionsOf(recentStore'.list, candidate.id) = {1}
             /\ Head(recentStore'.list) = savedLocation(candidate)
             /\ Tail(recentStore'.list) = WithoutId(RecentList, candidate.id)
       ]_vars
  /\ [](\A candidate \in LocationCandidates :
          LET once == addToRecentLocations(recentStore, candidate, FALSE)
              twice == addToRecentLocations(once, candidate, FALSE)
          IN  Ids(getRecentLocations(twice).list)
                = Ids(getRecentLocations(once).list))

\* New York was stored in a full recents list behind other locations; the
\* last call replaced its entry and it now stands first, once
C16_Witness ==
  /\ dropped = {"new-york-ny-us"}
  /\ Ids(RecentList) =
       <<"new-york-ny-us", "tokyo-jp", "austin-tx-us", "paris-fr",
         "london-gb">>

\* the list after the candidates of a sequence were added one by one to
\* storage holding the given value
RECURSIVE AddedInTurn(_, _)
AddedInTurn(stored, candidates) ==
  IF candidates = <<>> THEN stored
  ELSE AddedInTurn(addToRecentLocations(stored, Head(candidates), FALSE),
                   Tail(candidates))

\* the ways of adding six distinct locations one after the other
SixDistinct ==
  {order \in [1..6 -> LocationCandidates] :
     \A i, j \in 1..6 : order[i] = order[j] => i = j}

\* added to empty storage in any order, six distinct locations leave the
\* five added last, the last one first
SixAddedKeepFive ==
  \A order \in SixDistinct :
    AddedInTurn(Absent, order).list =
      [i \in 1..MAX_RECENT_LOCATIONS |-> savedLocation(order[7 - i])]

\* C17: the recents list never has more than 5 entries; adding a location
\* that is not stored to a list of 5 drops the last (oldest) entry and puts
\* the new one first; and six distinct locations added to empty storage
\* leave exactly the five added last, most recent first.
C17_RecentsCappedAtFive ==
  /\ [](Len(RecentList) <= MAX_RECENT_LOCATIONS)
  /\ [][\A candidate \in LocationCandidates :
          /\ Len(RecentList) = MAX_RECENT_LOCATIONS
          /\ ~SomeId(RecentList, candidate.id)
          /\ RecordRecent(candidate, FALSE)
          => recentStore'.list =
               <<savedLocation(candidate)>>
                 \o SubSeq(RecentList, 1, MAX_RECENT_LOCATIONS - 1)
       ]_vars
  /\ [](SixAddedKeepFive)

\* five locations are stored: the last call added the sixth one, which
\* stands first, and took out New York, the one added first
C17_Witness ==
  /\ dropped = {"new-york-ny-us"}
  /\ Ids(RecentList) =
       <<"lima-pe", "tokyo-jp", "austin-tx-us", "paris-fr", "london-gb">>

\* C18: addToFavoriteLocations with a candidate whose id is among the
\* favorites does not reach setItem and leaves the stored value as it is,
\* whether or not a write would fail; with a candidate whose id is not
\* among them, its write puts the new entry after the existing entries,
\* which stay as they were and in their order.
C18_AddFavoriteAppendsOnce ==
  [][\A candidate \in FavoriteCandidates :
       /\ \A writeFails \in BOOLEAN :
            /\ SomeId(FavoriteList, candidate.id)
            /\ AddFavorite(candidate, writeFails)
            => /\ ~addToFavoriteLocationsWrites(favoriteStore, candidate)
               /\ favoriteStore' = favoriteStore
       /\ /\ getFavoriteLocations(favoriteStore).isArray
          /\ ~SomeId(FavoriteList, candidate.id)
          /\ AddFavorite(candidate, FALSE)
          => /\ favoriteStore'.kind = "list"
             /\ Len(favoriteStore'.list) = Len(FavoriteList) + 1
             /\ SubSeq(favoriteStore'.list, 1, Len(FavoriteList))
                  = FavoriteList
             /\ favoriteStore'.list[Len(FavoriteList) + 1]
                  = savedLocation(candidate)
    ]_vars

\* three favorites in the order they were added, none taken out by the
\* last call, which returned nothing: New York was added last and stands
\* last
C18_Witness ==
  /\ returned = Void
  /\ dropped = {}
  /\ recentStore.kind # "list"
  /\ Ids(FavoriteList) = <<"paris-fr", "london-gb", "new-york-ny-us">>

\* C19: in every state and for every candidate isLocationFavorite reports
\* as not a favorite, two calls of toggleLocationFavorite in a row, their
\* writes taking effect, return true and then false, and the favorites
\* read after the second call are the favorites read before the first.
C19_ToggleTwiceRestores ==
  \A candidate \in FavoriteCandidates :
    isLocationFavorite(favoriteStore, candidate.id) = Boolean(FALSE)
    => LET first == toggleLocationFavorite(favoriteStore, candidate, FALSE)
           second == toggleLocationFavorite(first.stored, candidate, FALSE)
       IN  /\ first.returned = Boolean(TRUE)
           /\ isLocationFavorite(first.stored, candidate.id) = Boolean(TRUE)
           /\ second.returned = Boolean(FALSE)
           /\ getFavoriteLocations(second.stored) = Array(FavoriteList)

\* London was toggled on behind New York and toggled off again: the last
\* call returned false, took London out and left New York alone
C19_Witness ==
  /\ returned = Boolean(FALSE)
  /\ dropped = {"london-gb"}
  /\ Ids(FavoriteList) = <<"new-york-ny-us">>

\* C20: whenever toggleLocationFavorite(candidate) returns a boolean,
\* with a working or a failing storage write, isLocationFavorite of the
\* candidate's id reports that boolean right after the call.
C20_ToggleReturnsMembership ==
  [][\A candidate \in FavoriteCandidates : \A writeFails \in BOOLEAN :
       /\ ToggleFavorite(candidate, writeFails)
       /\ returned'.kind = "boolean"
       => isLocationFavorite(favoriteStore', candidate.id) = returned'
    ]_vars

\* what a getter has to hand back for a stored value: the empty list when
\* nothing is stored or the text does not parse, the stored list when a
\* list is stored, and what JSON.parse made of any other text
ReadOf(stored, got) ==
  /\ stored.kind \in {"absent", "unparseable"}
       => got.kind = "array" /\ got.list = <<>>
  /\ stored.kind = "list" => got.kind = "array" /\ got.list = stored.list
  /\ stored.kind = "nonlist" => got.kind = "notarray"

\* a step in which a getter was called
ReadStep == returned'.kind \in {"array", "notarray"}

\* C21: every call of getRecentLocations and of getFavoriteLocations hands
\* back the empty list when its key is absent or holds text that does not
\* parse and the stored list when a list is stored, and leaves both stored
\* values as they were.
C21_ReadsAreSafeAndPure ==
  [][ReadStep
       => /\ calledFor' = "recents" => ReadOf(recentStore, returned')
          /\ calledFor' = "favorites" => ReadOf(favoriteStore, returned')
          /\ recentStore' = recentStore
          /\ favoriteStore' = favoriteStore
    ]_vars

\* the recents key holds text that does not parse, the favorites are a
\* list, and the last call read the recents as the empty list
C21_Witness ==
  /\ recentStore = Unparseable
  /\ favoriteStore.kind = "list" /\ Len(favoriteStore.list) = 2
  /\ calledFor = "recents"
  /\ returned = Listed(Array(<<>>))

\* C22: no call of a store function ends in an error thrown at its
\* caller, whatever the two keys hold.
C22_NoStoreCallThrows == returned.kind # "throws"

\* C23: a call of a recents function leaves the stored favorites as they
\* were and a call of a favorites function leaves the stored recents as
\* they were.
C23_FavoritesAndRecentsIndependent ==
  [][/\ calledFor' = "recents" => favoriteStore' = favoriteStore
     /\ calledFor' = "favorites" => recentStore' = recentStore
    ]_vars

\* London is in both lists at once, first among two recents and last among
\* two favorites, after a favorites call that took New York out
C23_Witness ==
  /\ calledFor = "favorites"
  /\ dropped = {"new-york-ny-us"}
  /\ Ids(RecentList) = <<"london-gb", "new-york-ny-us">>
  /\ Ids(FavoriteList) = <<"paris-fr", "london-gb">>

(***************************************************************************)
(* The weather source (lib/api/weather.ts): the processing of the          *)
(* provider's responses.                                                   *)
(***************************************************************************)
\* the provider's forecast: at most MaxSamples samples, SamplesPerDay of
\* them per calendar day, one after the other
SamplesPerDay == 4
MaxSamples == 20
\* the condition codes the mapping is checked for: -MaxCode..MaxCode
MaxCode == 1000

\* a mapping that reports the atmosphere codes (fog, mist) as wind
mapAtmosphereToWind(code) ==
  IF code >= 200 /\ code < 300 THEN "rain"
  ELSE IF code >= 300 /\ code < 400 THEN "rain"
  ELSE IF code >= 500 /\ code < 600 THEN "rain"
  ELSE IF code >= 600 /\ code < 700 THEN "snow"
  ELSE IF code >= 700 /\ code < 800 THEN "wind"
  ELSE IF code = 800 THEN "sun"
  ELSE "clouds"

mapWeatherCondition(code) ==
  IF code >= 200 /\ code < 300 THEN "rain"
  ELSE IF code >= 300 /\ code < 400 THEN "rain"
  ELSE IF code >= 500 /\ code < 600 THEN "rain"
  ELSE IF code >= 600 /\ code < 700 THEN "snow"
  ELSE IF code >= 700 /\ code < 800 THEN "clouds"
  ELSE IF code = 800 THEN "sun"
  ELSE IF code >= 801 /\ code < 900 THEN "clouds"
  ELSE "clouds"

\* the local calendar day a timestamp falls on (new Date(dt * 1000)); the
\* days are counted from the 29th of a month of 31 days, a Thursday
DayOf(dt) == dt \div SamplesPerDay

\* Date.getDate(): the day of the month
getDate(day) == IF day < 3 THEN 29 + day ELSE ((day - 3) % 31) + 1

\* formatDay: the name of the weekday
formatDay(dt) ==
  <<"Thursday", "Friday", "Saturday", "Sunday", "Monday", "Tuesday",
    "Wednesday">>[(DayOf(dt) % 7) + 1]

\* formatTime: the hour of the day, as "9AM"
formatTime(dt) == (dt % SamplesPerDay) * (24 \div SamplesPerDay)

\* forecastList.slice(0, 3): three samples instead of eight
SliceOfThree(forecastList) == slice(forecastList, 3)

\* forecastList.slice(0, 8)
SliceOfEight(forecastList) == slice(forecastList, 8)

processHourlyData(forecastList) ==
  LET items == SliceOfEight(forecastList)
  IN  [i \in 1..Len(items) |->
         [time |-> items[i].dt,
          formattedTime |-> formatTime(items[i].dt),
          temp |-> items[i].temp,
          icon |-> mapWeatherCondition(items[i].id)]]

\* the position of a day's entry in dailyData, 0 when it has none
IndexOfDay(dailyData, day) ==
  IF \E k \in 1..Len(dailyData) : dailyData[k].day = day
  THEN CHOOSE k \in 1..Len(dailyData) : dailyData[k].day = day
  ELSE 0

\* nothing skipped: the samples of the current day are grouped as well
SkipNothing(dt, currentDay) == FALSE

\* if (date.getDate() === today) return
SkipCurrentDay(dt, currentDay) == getDate(DayOf(dt)) = getDate(currentDay)

\* forecastList.forEach: the samples grouped under the name of their day,
\* the groups in the order in which they were created
RECURSIVE GroupByDay(_, _, _)
GroupByDay(forecastList, currentDay, dailyData) ==
  IF forecastList = <<>> THEN dailyData
  ELSE
    LET item == Head(forecastList)
        day == formatDay(item.dt)
        k == IndexOfDay(dailyData, day)
    IN  GroupByDay(Tail(forecastList), currentDay,
          IF SkipCurrentDay(item.dt, currentDay) THEN dailyData
          ELSE IF k = 0
          THEN Append(dailyData, [day |-> day, temps |-> <<item.temp>>,
                                  icons |-> <<item.id>>])
          ELSE [dailyData EXCEPT
                  ![k].temps = Append(@, item.temp),
                  ![k].icons = Append(@, item.id)])

\* how often an id occurs among the first n of the icons
CountOf(icons, n, icon) == Cardinality({i \in 1..n : icons[i] = icon})

\* icons.forEach with a count reaching the largest one taking over as well
\* (>= instead of >)
RECURSIVE MostCommonLast(_, _, _, _)
MostCommonLast(icons, n, maxCount, mostCommonIcon) ==
  IF n > Len(icons) THEN mostCommonIcon
  ELSE LET count == CountOf(icons, n, icons[n])
       IN  IF count >= maxCount
           THEN MostCommonLast(icons, n + 1, count, icons[n])
           ELSE MostCommonLast(icons, n + 1, maxCount, mostCommonIcon)

\* icons.forEach: the id whose count is the first to exceed every count
\* before it
RECURSIVE MostCommon(_, _, _, _)
MostCommon(icons, n, maxCount, mostCommonIcon) ==
  IF n > Len(icons) THEN mostCommonIcon
  ELSE LET count == CountOf(icons, n, icons[n])
       IN  IF count > maxCount
           THEN MostCommon(icons, n + 1, count, icons[n])
           ELSE MostCommon(icons, n + 1, maxCount, mostCommonIcon)

RECURSIVE SumOf(_)
SumOf(temps) == IF temps = <<>> THEN 0 ELSE Head(temps) + SumOf(Tail(temps))

\* the average temps.reduce(...) / temps.length, kept as the sum and the
\* number it is divided by
AverageOf(temps) == [sum |-> SumOf(temps), count |-> Len(temps)]

\* the entries of all the days grouped, not only of five
AllDays(entries) == entries

\* result.slice(0, 5)
FirstFiveDays(entries) == slice(entries, 5)

processDailyData(forecastList, currentDay) ==
  LET dailyData == GroupByDay(forecastList, currentDay, <<>>)
      entries ==
        [k \in 1..Len(dailyData) |->
           [date |-> dailyData[k].day,
            temp |-> AverageOf(dailyData[k].temps),
            icon |-> mapWeatherCondition(
                       MostCommon(dailyData[k].icons, 1, 0, 0))]]
  IN  FirstFiveDays(entries)

(***************************************************************************)
(* The weather source: the two operations and their network calls.         *)
(***************************************************************************)
\* what an operation settles with
Pending == [kind |-> "pending", error |-> "none", value |-> <<>>]
Resolved(value) == [kind |-> "resolved", error |-> "none", value |-> value]
Rejected(err) == [kind |-> "rejected", error |-> err, value |-> <<>>]

\* the condition ids the provider's samples carry, sample after sample
IdPatterns ==
  {<<800>>, <<500, 800, 800, 500>>, <<601, 500, 600, 201, 950>>}

\* a forecast response: n samples from the given time of the day after
\* day 0 on
ForecastOf(start, n, pattern) ==
  [i \in 1..n |->
     [dt |-> SamplesPerDay + start + i - 1,
      temp |-> SamplesPerDay + start + i - 1,
      id |-> pattern[((i - 1) % Len(pattern)) + 1]]]

ForecastLists ==
  {ForecastOf(start, n, pattern) :
     start \in 0..(SamplesPerDay - 1), n \in 0..MaxSamples,
     pattern \in IdPatterns}

\* the current-conditions response that goes with a forecast response
CurrentOf(forecastList) ==
  [name |-> "London",
   id |-> IF forecastList = <<>> THEN 800 ELSE forecastList[1].id]

\* the queries typed into the search box, character by character
Whitespace == {" ", "\t"}
Queries ==
  {<<>>, <<" ">>, <<" ", "\t">>, <<"a">>, <<" ", "a">>, <<"a", " ">>,
   <<"a", " ", "b">>, <<" ", "a", " ">>}

\* String.trim()
RECURSIVE trimStart(_)
trimStart(text) ==
  IF text # <<>> /\ Head(text) \in Whitespace THEN trimStart(Tail(text))
  ELSE text

RECURSIVE trimEnd(_)
trimEnd(text) ==
  IF text # <<>> /\ text[Len(text)] \in Whitespace
  THEN trimEnd(SubSeq(text, 1, Len(text) - 1))
  ELSE text

trim(text) == trimEnd(trimStart(text))

\* the query sent whatever it holds
NeverBlank(text) == FALSE

\* !query.trim()
IsBlank(text) == trim(text) = <<>>

\* the places the geocoding response lists
GeocodingItems ==
  <<[name |-> <<"S", "a", "n", " ", "J", "o", "s", "e">>,
     state |-> <<"C", "A">>, country |-> <<"U", "S">>,
     lat |-> 37, lon |-> -122],
    [name |-> <<"S", "a", "n", "J", "o", "s", "e">>,
     state |-> <<>>, country |-> <<"C", "R">>,
     lat |-> 10, lon |-> -84]>>

\* the responses the geocoding call can have: no place, the places above,
\* two places whose names differ by a space only, two places of which one
\* has the "_" in its name and the other in its state, two places that
\* differ in the longitude only
GeocodingLists ==
  {<<>>,
   GeocodingItems,
   <<[name |-> <<"S", "a", "n", " ", "J", "o", "s", "e">>,
      state |-> <<"C", "A">>, country |-> <<"U", "S">>,
      lat |-> 37, lon |-> -122],
     [name |-> <<"S", "a", "n", "J", "o", "s", "e">>,
      state |-> <<"C", "A">>, country |-> <<"U", "S">>,
      lat |-> 37, lon |-> -122]>>,
   <<[name |-> <<"A", "_">>, state |-> <<"B">>, country |-> <<"U", "S">>,
      lat |-> 1, lon |-> 2],
     [name |-> <<"A">>, state |-> <<"_", "B">>, country |-> <<"U", "S">>,
      lat |-> 1, lon |-> 2]>>,
   <<[name |-> <<"L", "i", "m", "a">>, state |-> <<>>,
      country |-> <<"P", "E">>, lat |-> -12, lon |-> -77],
     [name |-> <<"L", "i", "m", "a">>, state |-> <<>>,
      country |-> <<"P", "E">>, lat |-> -12, lon |-> -7]>>}

\* the decimal digits of a number, as a template literal prints it
RECURSIVE Digits(_)
Digits(n) ==
  IF n < 10 THEN <<<<"0", "1", "2", "3", "4", "5", "6", "7", "8", "9">>[n + 1]>>
  ELSE Digits(n \div 10) \o Digits(n % 10)

NumberToString(n) == IF n < 0 THEN <<"-">> \o Digits(-n) ELSE Digits(n)

\* String.replace(/\s+/g, "")
WithoutWhitespace(text) ==
  LET Inked(ch) == ch \notin Whitespace IN SelectSeq(text, Inked)

\* data.map: the LocationData made of a geocoding item
LocationDataOf(item) ==
  [id |-> WithoutWhitespace(item.name \o <<"_">> \o item.state \o <<"_">>
                            \o item.country \o <<"_">>
                            \o NumberToString(item.lat) \o <<"_">>
                            \o NumberToString(item.lon)),
   name |-> item.name, state |-> item.state, country |-> item.country,
   lat |-> item.lat, lon |-> item.lon]

\* the snapshot getFullWeatherData returns
WeatherDataOf(currentData, forecastList, currentDay) ==
  [location |-> currentData.name,
   current |-> [icon |-> mapWeatherCondition(currentData.id)],
   forcast |-> processDailyData(forecastList, currentDay),
   hourly |-> processHourlyData(forecastList)]

\* a network call is in flight or its body is being read
InFlight ==
  sourcePc \in {"current", "currentBody", "forecast", "forecastBody"}

\* getWeatherFromCoords(lat, lon, signal): fetch rejects at once when the
\* signal is aborted already, else the current-conditions call starts
getWeatherFromCoords ==
  /\ operation = "weather"
  /\ sourcePc = "idle"
  /\ IF signal.aborted
     THEN /\ sourcePc' = "ended"
          /\ settled' = Rejected("AbortError")
          /\ UNCHANGED fetchCalls
     ELSE /\ sourcePc' = "current"
          /\ fetchCalls' = [fetchCalls EXCEPT !.started = @ + 1]
          /\ UNCHANGED settled
  /\ UNCHANGED <<operation, query, signal, forecastData, today, hookVars,
                 storeVars, unitVars, pageVars>>

\* an abort that leaves the call in flight alone
AbortIgnored ==
  /\ operation = "weather"
  /\ sourcePc # "ended"
  /\ ~signal.aborted
  /\ signal' = [aborted |-> TRUE]
  /\ UNCHANGED <<sourcePc, settled, operation, query, forecastData, today,
                 fetchCalls, hookVars, storeVars, unitVars, pageVars>>

\* controller.abort(): the call in flight or the body being read is
\* cancelled and its await rejects with the AbortError
Abort ==
  /\ operation = "weather"
  /\ sourcePc # "ended"
  /\ ~signal.aborted
  /\ signal' = [aborted |-> TRUE]
  /\ IF InFlight
     THEN sourcePc' = "ended" /\ settled' = Rejected("AbortError")
     ELSE UNCHANGED <<sourcePc, settled>>
  /\ UNCHANGED <<operation, query, forecastData, today, fetchCalls, hookVars,
                 storeVars, unitVars, pageVars>>

\* the response of the current-conditions call arrives
CurrentResponds(ok) ==
  /\ sourcePc = "current"
  /\ fetchCalls' = [fetchCalls EXCEPT !.completed = @ + 1]
  /\ IF ok
     THEN sourcePc' = "currentBody" /\ UNCHANGED settled
     ELSE sourcePc' = "ended" /\ settled' = Rejected("Error")
  /\ UNCHANGED <<operation, query, signal, forecastData, today, hookVars,
                 storeVars, unitVars, pageVars>>

\* the transport fails: fetch rejects with a TypeError
TransportFails ==
  /\ sourcePc \in {"current", "forecast"}
  /\ sourcePc' = "ended"
  /\ settled' = Rejected("TypeError")
  /\ UNCHANGED <<operation, query, signal, forecastData, today, fetchCalls,
                 hookVars, storeVars, unitVars, pageVars>>

\* the forecast call not started after the current conditions were read
ForecastNotCalled(calls) == calls

\* fetch(`${BASE_URL}/forecast...`, { signal })
ForecastCalled(calls) == [calls EXCEPT !.started = @ + 1]

\* currentRes.json() resolves and the forecast call starts
CurrentBodyRead ==
  /\ sourcePc = "currentBody"
  /\ sourcePc' = "forecast"
  /\ fetchCalls' = ForecastCalled(fetchCalls)
  /\ UNCHANGED <<settled, operation, query, signal, forecastData, today,
                 hookVars, storeVars, unitVars, pageVars>>

\* the response of the forecast call arrives
ForecastResponds(ok) ==
  /\ sourcePc = "forecast"
  /\ fetchCalls' = [fetchCalls EXCEPT !.completed = @ + 1]
  /\ IF ok
     THEN sourcePc' = "forecastBody" /\ UNCHANGED settled
     ELSE sourcePc' = "ended" /\ settled' = Rejected("Error")
  /\ UNCHANGED <<operation, query, signal, forecastData, today, hookVars,
                 storeVars, unitVars, pageVars>>

\* forecastRes.json() resolves: the forecast is processed and the snapshot
\* returned
ForecastBodyRead ==
  /\ sourcePc = "forecastBody"
  /\ sourcePc' = "ended"
  /\ settled' = Resolved(WeatherDataOf(CurrentOf(forecastData),
                                       forecastData, today))
  /\ UNCHANGED <<operation, query, signal, forecastData, today, fetchCalls,
                 hookVars, storeVars, unitVars, pageVars>>

\* searchLocationsByName(query)
searchLocationsByName ==
  /\ operation = "search"
  /\ sourcePc = "idle"
  /\ IF IsBlank(query)
     THEN /\ sourcePc' = "ended"
          /\ settled' = Resolved(<<>>)
          /\ UNCHANGED fetchCalls
     ELSE /\ sourcePc' = "geocoding"
          /\ fetchCalls' = [fetchCalls EXCEPT !.started = @ + 1]
          /\ UNCHANGED settled
  /\ UNCHANGED <<operation, query, signal, forecastData, today, hookVars,
                 storeVars, unitVars, pageVars>>

\* the response of the geocoding call arrives; the error thrown for a
\* status that is not a success is caught and thrown again
GeocodingResponds(ok) ==
  /\ sourcePc = "geocoding"
  /\ fetchCalls' = [fetchCalls EXCEPT !.completed = @ + 1]
  /\ IF ok
     THEN sourcePc' = "geocodingBody" /\ UNCHANGED settled
     ELSE sourcePc' = "ended" /\ settled' = Rejected("Error")
  /\ UNCHANGED <<operation, query, signal, forecastData, today, hookVars,
                 storeVars, unitVars, pageVars>>

\* the transport fails: the TypeError of fetch is caught and an Error
\* thrown instead
GeocodingFails ==
  /\ sourcePc = "geocoding"
  /\ sourcePc' = "ended"
  /\ settled' = Rejected("Error")
  /\ UNCHANGED <<operation, query, signal, forecastData, today, fetchCalls,
                 hookVars, storeVars, unitVars, pageVars>>

\* response.json() resolves and the items are mapped
GeocodingBodyRead ==
  /\ sourcePc = "geocodingBody"
  /\ sourcePc' = "ended"
  /\ \E data \in GeocodingLists :
       settled' = Resolved([i \in 1..Len(data) |-> LocationDataOf(data[i])])
  /\ UNCHANGED <<operation, query, signal, forecastData, today, fetchCalls,
                 hookVars, storeVars, unitVars, pageVars>>

\* an operation about to be called: getWeatherFromCoords with a signal
\* that may be aborted already, on a day that is the day before the first
\* sample or the day of the first sample, or searchLocationsByName
SourceInit ==
  /\ HookInit
  /\ PageUnused
  /\ browser \in {b \in Browsers : ~b.permissions /\ ~b.geolocation}
  /\ recentStore = Absent
  /\ favoriteStore = Absent
  /\ returned = NothingReturned
  /\ dropped = {}
  /\ calledFor = "none"
  /\ UnitUnused
  /\ sourcePc = "idle"
  /\ fetchCalls = [started |-> 0, completed |-> 0]
  /\ settled = Pending
  /\ \/ /\ operation = "weather"
        /\ query = <<>>
        /\ signal \in {[aborted |-> FALSE], [aborted |-> TRUE]}
        /\ forecastData \in ForecastLists
        /\ today \in {0, 1}
     \/ /\ operation = "search"
        /\ query \in Queries
        /\ signal = [aborted |-> FALSE]
        /\ forecastData = <<>>
        /\ today = 0

SourceNext ==
  \/ getWeatherFromCoords
  \/ Abort
  \/ \E ok \in BOOLEAN : CurrentResponds(ok)
  \/ TransportFails
  \/ CurrentBodyRead
  \/ \E ok \in BOOLEAN : ForecastResponds(ok)
  \/ ForecastBodyRead
  \/ searchLocationsByName
  \/ \E ok \in BOOLEAN : GeocodingResponds(ok)
  \/ GeocodingFails
  \/ GeocodingBodyRead

SourceSpec == SourceInit /\ [][SourceNext]_vars

(***************************************************************************)
(* Helpers of the claims about the weather source.                         *)
(***************************************************************************)
\* the operation has returned a value / has thrown
SourceResolved == sourcePc = "ended" /\ settled.kind = "resolved"
SourceRejected == sourcePc = "ended" /\ settled.kind = "rejected"

\* getWeatherFromCoords has returned its snapshot
SnapshotProduced == operation = "weather" /\ SourceResolved

\* the table of the condition codes
ConditionTable(code) ==
  IF code \in (200..299) \cup (300..399) \cup (500..599) THEN "rain"
  ELSE IF code \in 600..699 THEN "snow"
  ELSE IF code = 800 THEN "sun"
  ELSE "clouds"

\* the mapping agrees with the table on every code checked
MappingIsTheTable ==
  \A code \in (0 - MaxCode)..MaxCode :
    /\ mapWeatherCondition(code) = ConditionTable(code)
    /\ mapWeatherCondition(code) # "wind"

\* C24: for every condition code from -MaxCode to MaxCode the mapping gives
\* the value of the table and never 'wind', and every icon of every
\* snapshot produced is the table's value for the id of its sample.
C24_ConditionMappingIsTheTable ==
  /\ MappingIsTheTable
  /\ SnapshotProduced
     => /\ settled.value.current.icon
             = ConditionTable(CurrentOf(forecastData).id)
        /\ \A i \in 1..Len(settled.value.hourly) :
             settled.value.hourly[i].icon
               = ConditionTable(forecastData[i].id)

\* a snapshot whose hourly samples carry the ids 601, 500, 600, 201 and
\* 950 and show snow, rain and clouds
C24_Witness ==
  /\ SnapshotProduced
  /\ Len(forecastData) >= 5
  /\ forecastData[5].id = 950
  /\ {settled.value.hourly[i].icon : i \in 1..5} = {"snow", "rain", "clouds"}

\* all the characters of a text are whitespace
AllWhitespace(text) == \A i \in 1..Len(text) : text[i] \in Whitespace

\* C25: a search with an empty or all-whitespace query starts no network
\* call and resolves to the empty list; a search with any other query has
\* started exactly one geocoding call once it is called and never a second
\* one, and it rejects with an error when that call answers with a status
\* that is not a success or when the transport fails.
C25_SearchCallsTheNetworkOnceOrNever ==
  /\ [](operation = "search" /\ AllWhitespace(query)
          => /\ fetchCalls.started = 0
             /\ sourcePc \in {"idle", "ended"}
             /\ sourcePc = "ended" => settled = Resolved(<<>>))
  /\ [](operation = "search" /\ ~AllWhitespace(query)
          => /\ fetchCalls.started = IF sourcePc = "idle" THEN 0 ELSE 1
             /\ fetchCalls.completed <= 1)
  /\ [][GeocodingResponds(FALSE) \/ GeocodingFails
          => sourcePc' = "ended" /\ settled' = Rejected("Error")]_vars

\* the query " \t" was searched: the empty list, no network call
C25_Witness ==
  /\ operation = "search"
  /\ query = <<" ", "\t">>
  /\ settled = Resolved(<<>>)
  /\ sourcePc = "ended"
  /\ fetchCalls.started = 0

\* C26: getWeatherFromCoords ends either rejected or with a snapshot; a
\* snapshot is produced only after both calls answered with success, its
\* hourly list is the first min(8, n) of the n forecast samples in their
\* order (at most 24 entries) and its daily list has at most 5 entries; a
\* status that is not a success on either call rejects the operation, and
\* after one on the current-conditions call the forecast call is never
\* started.
C26_SnapshotShapeOrFailure ==
  /\ [](operation = "weather" /\ sourcePc = "ended"
          => SourceRejected \/ SourceResolved)
  /\ [](SnapshotProduced
          => LET hourly == settled.value.hourly
                 n == Len(forecastData)
             IN  /\ fetchCalls = [started |-> 2, completed |-> 2]
                 /\ Len(hourly) = IF n < 8 THEN n ELSE 8
                 /\ Len(hourly) <= 24
                 /\ \A i \in 1..Len(hourly) :
                      /\ hourly[i].time = forecastData[i].dt
                      /\ hourly[i].temp = forecastData[i].temp
                 /\ Len(settled.value.forcast) <= 5)
  /\ [][CurrentResponds(FALSE) \/ ForecastResponds(FALSE)
          => sourcePc' = "ended" /\ settled' = Rejected("Error")]_vars
  /\ [](operation = "weather" /\ SourceRejected /\ fetchCalls.completed <= 1
          => fetchCalls.started <= 1 \/ settled.error # "Error")

\* a snapshot from 20 forecast samples: 8 hourly entries, 5 days
C26_Witness ==
  /\ SnapshotProduced
  /\ Len(forecastData) = MaxSamples
  /\ Len(settled.value.hourly) = 8
  /\ Len(settled.value.forcast) = 5

\* C27: when the signal is aborted while a call of getWeatherFromCoords is
\* in flight or its body is being read, the operation rejects with the
\* AbortError at once; whenever the signal is aborted, no snapshot has
\* been or will be produced, the operation has ended with the AbortError
\* or, not called yet, will end with it, and no network call is started
\* or completed any more.
C27_CancellationFailsTheOperation ==
  /\ [][~signal.aborted /\ signal'.aborted /\ InFlight
          => sourcePc' = "ended" /\ settled' = Rejected("AbortError")]_vars
  /\ [](signal.aborted
          => /\ ~SnapshotProduced
             /\ sourcePc \in {"idle", "ended"}
             /\ sourcePc = "ended" => settled = Rejected("AbortError"))
  /\ [][signal.aborted => fetchCalls' = fetchCalls]_vars

\* the signal was aborted during the forecast call: the current-conditions
\* call had completed, the forecast call had started, the operation
\* rejected with the AbortError
C27_Witness ==
  /\ signal.aborted
  /\ settled = Rejected("AbortError")
  /\ fetchCalls = [started |-> 2, completed |-> 1]

\* the calendar days, other than the current one, that the forecast has
\* samples of, and the k-th of them in chronological order
OtherDays ==
  {DayOf(forecastData[i].dt) : i \in 1..Len(forecastData)} \ {today}
OtherDay(k) ==
  CHOOSE d \in OtherDays : Cardinality({e \in OtherDays : e < d}) = k - 1

\* the samples of one calendar day, in the order of the forecast
SamplesOfDay(d) == SelectSeq(forecastData, LAMBDA item : DayOf(item.dt) = d)
TempsOfDay(d) == [i \in 1..Len(SamplesOfDay(d)) |-> SamplesOfDay(d)[i].temp]
IdsOfDay(d) == [i \in 1..Len(SamplesOfDay(d)) |-> SamplesOfDay(d)[i].id]

\* C28: the daily list of a snapshot has one entry for each of the first
\* five calendar days, in chronological order, that the forecast has
\* samples of and that are not the current day; the entry of a day carries
\* the name of that day and the average of the temperatures of all the
\* samples of that day and of no other sample.
C28_DailyEntriesAreTheOtherDays ==
  SnapshotProduced =>
    LET daily == settled.value.forcast
    IN  /\ Len(daily) =
             IF Cardinality(OtherDays) < 5 THEN Cardinality(OtherDays) ELSE 5
        /\ \A k \in 1..Len(daily) :
             /\ daily[k].date = formatDay(OtherDay(k) * SamplesPerDay)
             /\ daily[k].temp.count = Len(SamplesOfDay(OtherDay(k)))
             /\ daily[k].temp.sum = SumOf(TempsOfDay(OtherDay(k)))

\* a snapshot made on the day of the first samples, from a forecast that
\* reaches five later days
C28_Witness ==
  /\ SnapshotProduced
  /\ today = 1
  /\ SamplesOfDay(today) # <<>>
  /\ Cardinality(OtherDays) = 5
  /\ Len(settled.value.forcast) = 5

\* how often an id occurs among the ids of a day, the highest of these
\* counts, and the ids that have it
TimesIn(ids, id) == CountOf(ids, Len(ids), id)
HighestCount(ids) ==
  CHOOSE c \in 1..Len(ids) :
    /\ \E i \in 1..Len(ids) : TimesIn(ids, ids[i]) = c
    /\ \A i \in 1..Len(ids) : TimesIn(ids, ids[i]) <= c
MostFrequent(ids) ==
  {ids[i] : i \in {j \in 1..Len(ids) : TimesIn(ids, ids[j]) = HighestCount(ids)}}

\* where an id appears first, and where it occurs for the c-th time
FirstSeenAt(ids, id) == CHOOSE i \in 1..Len(ids) :
  ids[i] = id /\ \A j \in 1..(i - 1) : ids[j] # id
ReachesAt(ids, id, c) == CHOOSE i \in 1..Len(ids) :
  ids[i] = id /\ CountOf(ids, i, id) = c

\* among the most frequent ids, the one that appears first
FirstSeen(ids) == CHOOSE id \in MostFrequent(ids) :
  \A other \in MostFrequent(ids) :
    FirstSeenAt(ids, id) <= FirstSeenAt(ids, other)
\* among the most frequent ids, the one that is the first to have occurred
\* as often as the highest count
FirstToReach(ids) == CHOOSE id \in MostFrequent(ids) :
  \A other \in MostFrequent(ids) :
    ReachesAt(ids, id, HighestCount(ids))
      <= ReachesAt(ids, other, HighestCount(ids))

\* C29 as stated: the condition of each day of a snapshot is the mapping
\* of the most frequent id of the day's samples and, among several with
\* the highest count, of the one that appears first in the day's samples.
C29_TieGoesToFirstSeen ==
  SnapshotProduced =>
    \A k \in 1..Len(settled.value.forcast) :
      settled.value.forcast[k].icon =
        mapWeatherCondition(FirstSeen(IdsOfDay(OtherDay(k))))

\* C29 amended: the condition of each day of a snapshot is the mapping of
\* the most frequent id of the day's samples and, among several with the
\* highest count, of the one whose occurrences are the first to reach that
\* count in the day's samples.
C29_TieGoesToFirstToReach ==
  SnapshotProduced =>
    \A k \in 1..Len(settled.value.forcast) :
      settled.value.forcast[k].icon =
        mapWeatherCondition(FirstToReach(IdsOfDay(OtherDay(k))))

\* a snapshot with a day of rain, clear, clear, rain: both ids occur twice,
\* rain appears first, clear is the first to occur twice, the day is shown
\* as sun
C29_Witness ==
  /\ SnapshotProduced
  /\ \E k \in 1..Len(settled.value.forcast) :
       /\ IdsOfDay(OtherDay(k)) = <<500, 800, 800, 500>>
       /\ settled.value.forcast[k].icon = "sun"

(***************************************************************************)
(* The temperature unit: useTemperatureUnit.  The repository has two       *)
(* versions of the hook: one starts with "metric" and reads the saved      *)
(* value in a mount effect, the other reads it in the initializer of       *)
(* useState.  toggleUnit and displayTemp are the same in both.             *)
(***************************************************************************)
\* what localStorage.getItem("weatherapp_temp_unit") can give: null, the
\* two units, and values that are no unit
SavedUnits == {"absent", "metric", "imperial", "kelvin", "METRIC"}

\* the arguments of displayTemp, in tenths of a degree Celsius
Temperatures == {-400, -178, -25, -5, 0, 4, 5, 25, 215, 1000}

\* savedUnit === "imperial" || savedUnit === "metric"
IsUnit(saved) == saved = "imperial" \/ saved = "metric"

\* the initializer of useState: the saved unit, "metric" without one
InitialUnit(saved) == IF IsUnit(saved) THEN saved ELSE "metric"

\* prev === "metric" ? "imperial" : "metric"
NewUnit(prev) == IF prev = "metric" THEN "imperial" ELSE "metric"

\* Math.floor in the place of Math.round
roundDown(p, q) == p \div q

\* Math.round of the fraction p / q, q > 0: the integer nearest to it, the
\* larger one when there are two
round(p, q) == (2 * p + q) \div (2 * q)

\* displayTemp for a temperature of c tenths of a degree Celsius
displayTempOf(c, u) ==
  IF u = "imperial"
  THEN [value |-> round(c * 9 + 1600, 50), suffix |-> "°F"]
  ELSE [value |-> round(c, 10), suffix |-> "°C"]

\* the last entry of a history, as a history
LastOf(history) ==
  IF history = <<>> THEN <<>> ELSE <<history[Len(history)]>>

\* the mount effect of the version that has one
MountEffect ==
  /\ variant = "effect"
  /\ ~unitMounted
  /\ unitMounted' = TRUE
  /\ unit' = IF IsUnit(savedUnit) THEN savedUnit ELSE unit
  /\ UNCHANGED <<savedUnit, variant, beforeToggle, celsius, displayed,
                 hookVars, storeVars, sourceVars,
                 pageVars>>

\* the handlers of the hook can be called: React runs the effects of the
\* mount before it handles an event
UnitReady == variant = "initializer" \/ unitMounted

\* a toggleUnit that changes the unit and saves nothing
toggleUnitUnsaved ==
  /\ UnitReady
  /\ unit' = NewUnit(unit)
  /\ beforeToggle' =
       LastOf(beforeToggle) \o <<[unit |-> unit, savedUnit |-> savedUnit]>>
  /\ UNCHANGED <<savedUnit, unitMounted, variant, celsius, displayed,
                 hookVars, storeVars, sourceVars,
                 pageVars>>

toggleUnit ==
  /\ UnitReady
  /\ savedUnit' = NewUnit(unit)
  /\ unit' = NewUnit(unit)
  /\ beforeToggle' =
       LastOf(beforeToggle) \o <<[unit |-> unit, savedUnit |-> savedUnit]>>
  /\ UNCHANGED <<unitMounted, variant, celsius, displayed,
                 hookVars, storeVars, sourceVars,
                 pageVars>>

displayTemp(c) ==
  /\ celsius' = c
  /\ displayed' = displayTempOf(c, unit)
  /\ UNCHANGED <<unit, savedUnit, unitMounted, variant, beforeToggle,
                 hookVars, storeVars, sourceVars,
                 pageVars>>

\* the hook after its first render, in either version, with any saved value
UnitInit ==
  /\ HookInit
  /\ PageUnused
  /\ browser \in {b \in Browsers : ~b.permissions /\ ~b.geolocation}
  /\ recentStore = Absent
  /\ favoriteStore = Absent
  /\ returned = NothingReturned
  /\ dropped = {}
  /\ calledFor = "none"
  /\ SourceUnused
  /\ savedUnit \in SavedUnits
  /\ variant \in {"effect", "initializer"}
  /\ unit = IF variant = "initializer" THEN InitialUnit(savedUnit)
            ELSE "metric"
  /\ unitMounted = FALSE
  /\ beforeToggle = <<>>
  /\ celsius = 0
  /\ displayed = [value |-> 0, suffix |-> ""]

UnitNext ==
  \/ MountEffect
  \/ toggleUnit
  \/ \E c \in Temperatures : displayTemp(c)

UnitSpec == UnitInit /\ [][UnitNext]_vars

\* the state before the earlier of the last two calls of toggleUnit
TwoTogglesAgo == beforeToggle[1]

\* C30 as stated: the unit is metric or imperial; once the hook is ready
\* and before the first toggle it is the saved value when that is a unit
\* and metric otherwise; after a toggle the saved value is the unit; after
\* two toggles the unit and the saved value are what they were before them.
C30_TwoTogglesRestoreUnitAndSavedValue ==
  /\ unit \in {"metric", "imperial"}
  /\ UnitReady /\ beforeToggle = <<>>
       => unit = IF savedUnit \in {"metric", "imperial"} THEN savedUnit
                 ELSE "metric"
  /\ beforeToggle # <<>> => savedUnit = unit
  /\ Len(beforeToggle) = 2
       => unit = TwoTogglesAgo.unit /\ savedUnit = TwoTogglesAgo.savedUnit

\* C30 amended: as above, but after two toggles the unit is what it was
\* before them, and the saved value is what it was before them when it was
\* a unit then; a saved value that was absent or no unit is not restored:
\* it has become the unit.
C30_TwoTogglesRestoreUnit ==
  /\ unit \in {"metric", "imperial"}
  /\ UnitReady /\ beforeToggle = <<>>
       => unit = IF savedUnit \in {"metric", "imperial"} THEN savedUnit
                 ELSE "metric"
  /\ beforeToggle # <<>> => savedUnit = unit
  /\ Len(beforeToggle) = 2
       => /\ unit = TwoTogglesAgo.unit
          /\ TwoTogglesAgo.savedUnit \in {"metric", "imperial"}
               => savedUnit = TwoTogglesAgo.savedUnit
          /\ TwoTogglesAgo.savedUnit \notin {"metric", "imperial"}
               => savedUnit = unit /\ savedUnit # TwoTogglesAgo.savedUnit

\* imperial was saved, the mount effect made it the unit, and two toggles
\* led back to it
C30_Witness ==
  /\ variant = "effect"
  /\ unitMounted
  /\ Len(beforeToggle) = 2
  /\ TwoTogglesAgo = [unit |-> "imperial", savedUnit |-> "imperial"]
  /\ unit = "imperial"
  /\ savedUnit = "imperial"

\* v is the integer nearest to the fraction p / q, q > 0, the larger one of
\* two: v - 1/2 <= p / q < v + 1/2
NearestTo(p, q, v) == 2 * q * v - q <= 2 * p /\ 2 * p < 2 * q * v + q

\* the examples: 0 degrees are "0°C" and "32°F", 100 degrees are "212°F"
DisplayExamples ==
  /\ displayTempOf(0, "metric") = [value |-> 0, suffix |-> "°C"]
  /\ displayTempOf(0, "imperial") = [value |-> 32, suffix |-> "°F"]
  /\ displayTempOf(1000, "imperial") = [value |-> 212, suffix |-> "°F"]

\* C31: a call of displayTemp with c degrees Celsius gives the integer
\* nearest to c * 9 / 5 + 32 with "°F" when the unit is imperial and the
\* integer nearest to c with "°C" when it is metric (0 gives 0°C and 32°F,
\* 100 gives 212°F); the call changes neither the unit nor the saved
\* preference, and its result is a function of the unit and the argument
\* alone.
C31_DisplayTempConvertsAndChangesNothing ==
  /\ DisplayExamples
  /\ [][celsius' # celsius \/ displayed' # displayed
          => /\ unit' = unit
             /\ savedUnit' = savedUnit
             /\ unitMounted' = unitMounted
             /\ displayed' = displayTempOf(celsius', unit)
             /\ IF unit = "imperial"
                THEN /\ displayed'.suffix = "°F"
                     /\ NearestTo(celsius' * 9 + 1600, 50, displayed'.value)
                ELSE /\ displayed'.suffix = "°C"
                     /\ NearestTo(celsius', 10, displayed'.value)]_vars

\* 2.5 degrees shown in imperial units: 36.5 rounds up to 37°F
C31_Witness ==
  /\ unit = "imperial"
  /\ celsius = 25
  /\ displayed = [value |-> 37, suffix |-> "°F"]

\* the five fields the id of a candidate is made of
FieldsOf(candidate) ==
  <<candidate.name, candidate.state, candidate.country, candidate.lat,
    candidate.lon>>

\* C32: of the candidates searchLocationsByName returns, two that differ
\* in the name, the state, the country, the latitude or the longitude have
\* different ids.
C32_DifferentCandidatesDifferentIds ==
  operation = "search" /\ SourceResolved =>
    \A i, j \in 1..Len(settled.value) :
      FieldsOf(settled.value[i]) # FieldsOf(settled.value[j])
        => settled.value[i].id # settled.value[j].id

\* the labels that name a place: the name the page passes for it, the
\* default's name, the name the provider reports for it
NamesFor(c) ==
  {ProviderName(c)}
    \cup (IF c \in SearchCoords THEN {NameOf(c)} ELSE {})
    \cup (IF c = DEFAULT_COORDS THEN {DEFAULT_LOCATION_NAME} ELSE {})

\* C33: the location label is empty, the placeholder, or a name of the
\* coordinates that are selected; never a name of other coordinates.
C33_LabelNamesTheSelectedCoordinates ==
  \/ location \in {NoName, "Loading weather data..."}
  \/ location \in NamesFor(coordinates)

\* C34: isPendingRequest is true whenever a weather fetch of the key that
\* is shown is in flight.
C34_PendingWhileActiveFetch ==
  ActiveFetches # {} => isPendingRequest

\* C35: at most one position request to the device is outstanding.
C35_OnePositionRequestAtATime ==
  positionWaiters + abandonedWaiters <= 1

\* C36: the fallback timer selects the default and notifies the user only
\* when no coordinates are set, geolocation has not succeeded and the user
\* has not searched.
C36_FallbackOnlyWithoutCoordinates ==
  []["unable-using-default" \in toasts'
       => coordinates = NoCoords /\ ~geolocated /\ ~userHasSearched]_vars

(***************************************************************************)
(* Teardown: the component that uses the hook is unmounted.  React runs    *)
(* the cleanup the startup effect returned, if it returned one; nothing    *)
(* of the hook runs afterwards.                                            *)
(***************************************************************************)
Unmounted == startupPc = "unmounted"

\* the cleanup of the startup effect at unmount: clearTimeout and the abort
\* of the controller the effect captured when it ran
Unmount ==
  /\ Quiet
  /\ mounted
  /\ ~Unmounted
  /\ mounted' = FALSE
  /\ startupPc' = "unmounted"
  /\ fallbackTimer' = IF hasCleanup THEN CleanupTimer(fallbackTimer)
                      ELSE fallbackTimer
  /\ fetches' = IF hasCleanup THEN AbortPrevious(fetches, capturedController)
                ELSE fetches
  /\ hasCleanup' = FALSE
  /\ UNCHANGED <<coordinates, isGettingLocation, customLocationName,
                 currentRequestId, isPendingRequest, geolocated,
                 userHasSearched, abortControllerRef, cache, laggyData,
                 retryTimer, timerClosure, capturedController,
                 permissionWaiters, positionWaiters, abandonedWaiters,
                 browser, nextRequestId, toasts, lastOutcome, startupRuns,
                 storeVars, sourceVars, unitVars, pageVars>>

\* a session without user actions that may be torn down at any moment
TeardownNext ==
  \/ ~Unmounted /\ UnattendedNext
  \/ Unmount

TeardownSpec == Init /\ [][TeardownNext]_vars

\* C37: when the cleanup of the startup effect runs at teardown, every
\* weather fetch in flight has its signal aborted.
C37_CleanupAbortsTheFetchInFlight ==
  [][~Unmounted /\ Unmounted' /\ hasCleanup
       => \A f \in fetches : \E g \in fetches' :
            g.fid = f.fid /\ g.aborted]_vars

(***************************************************************************)
(* The session in which every outstanding operation completes: the effect  *)
(* runs on mount, the browser answers the permission queries and the       *)
(* position requests, the fetches end, the fallback timer and the error    *)
(* retry timer fire.  Nothing is assumed about the user's actions and      *)
(* about the periodic refresh of SWR.                                      *)
(***************************************************************************)
SettlingSpec ==
  /\ Init
  /\ [][Next]_vars
  /\ WF_vars(StartupEffect)
  /\ WF_vars(StartupPermissionResolved)
  /\ WF_vars(GeoPermissionResolved)
  /\ WF_vars(GeoSuccess(FALSE) \/ GeoFailure(FALSE))
  /\ WF_vars(GeoSuccess(TRUE) \/ GeoFailure(TRUE))
  /\ WF_vars(FallbackTimer)
  /\ WF_vars(FetchSettles)
  /\ WF_vars(AbortedFetchRejects)
  /\ WF_vars(ErrorRetry)

\* the request ids of the model are used up while an operation that needs
\* one is outstanding: the behaviour ends here in the model only
OutOfRequestIds ==
  /\ nextRequestId > MaxRequestIds
  /\ \/ startupPc = "query"
     \/ permissionWaiters > 0
     \/ fallbackTimer /\ TimerCondition

\* nothing is loading and the coordinator shows the snapshot of the
\* selected coordinates or the error of their request
CoordinatorSettled ==
  /\ ~loading
  /\ ~isPendingRequest
  /\ Status \in {"ready", "error"}
  /\ Status = "ready" => weather = coordinates

\* C38 as stated: loading and isPendingRequest eventually become false and
\* stay false, the coordinator being ready or in error for the selected
\* coordinates.
C38_LoadingEventuallyStaysFalse ==
  <>[](CoordinatorSettled \/ OutOfRequestIds)

\* C38 amended: whatever the selections, retries and cancellations, loading
\* and isPendingRequest are false again and again, the coordinator being
\* ready or in error for the selected coordinates: the loading signal is
\* never true forever.
C38_LoadingNeverStaysTrue ==
  []<>(CoordinatorSettled \/ OutOfRequestIds)

\* the snapshot of a place the user picked is shown, every request id of
\* the model has been used
C38_Witness ==
  /\ CoordinatorSettled
  /\ Status = "ready"
  /\ userHasSearched
  /\ coordinates \in SearchCoords
  /\ nextRequestId > MaxRequestIds
  /\ ~OutOfRequestIds

\* no two entries of a list have the same id
DistinctIds(list) ==
  \A i, j \in 1..Len(list) : list[i].id = list[j].id => i = j

\* C39: whatever was added, removed and toggled, neither the stored recents
\* nor the stored favorites hold two entries with the same id.
C39_NoDuplicateIdsInTheStore ==
  /\ recentStore.kind = "list" => DistinctIds(recentStore.list)
  /\ favoriteStore.kind = "list" => DistinctIds(favoriteStore.list)

\* all three places are in both lists, and the last call put a place to
\* the front of the recents that was in the list before
C39_Witness ==
  /\ recentStore.kind = "list"
  /\ favoriteStore.kind = "list"
  /\ Len(recentStore.list) = 3
  /\ Len(favoriteStore.list) = 3
  /\ calledFor = "recents"
  /\ dropped # {}
  /\ recentStore.list[1].id \in dropped

(***************************************************************************)
(* The page's location search: the input, the debounced search, the        *)
(* dropdown and the selection of a location.                               *)
(***************************************************************************)
\* the calls of searchLocationsByName the page makes at most
MaxSearches == 2

\* the texts the user has in the search input
PageQueries == {<<>>, <<" ">>, <<"a">>, <<"b">>}

\* the place the geocoding provider knows for a search coordinate
PlaceOf(c) == [id |-> c, name |-> c, state |-> "", country |-> "US"]

\* the place the provider finds for a query that is not blank
PlaceFound(text) == IF text = <<"a">> THEN PlaceOf("A") ELSE PlaceOf("B")

\* what searchLocationsByName can resolve with for a query: no place, or
\* the place found
ResultsOf(text) == {<<>>, <<PlaceFound(text)>>}

\* loadSavedLocations: the two lists as the store functions hand them back
loadSavedLocations(favorites, recents) ==
  [favoriteLocations |-> getFavoriteLocations(favorites).list,
   recentLocations |-> getRecentLocations(recents).list]

\* the effect of the debounced search runs again when searchQuery changed:
\* its cleanup clears the timer and a new one is set
DebounceEffect(text) == IF text # searchQuery THEN TRUE ELSE debounceTimer

showSearchResults == Len(searchResults) > 0
showRecents ==
  /\ Len(savedLocations.recentLocations) > 0
  /\ ~showSearchResults
  /\ IsBlank(searchQuery)

\* the effects of the page's first render: the saved locations are loaded
\* and the debounce timer is set
PageMountEffects ==
  /\ ~pageMounted
  /\ pageMounted' = TRUE
  /\ savedLocations' = loadSavedLocations(favoriteStore, recentStore)
  /\ debounceTimer' = TRUE
  /\ UNCHANGED <<searchQuery, searchResults, isSearching, showDropdown,
                 searches, nextSearch, hookVars, storeVars, sourceVars,
                 unitVars>>

\* the user edits the text of the input
handleSearchChange(value) ==
  /\ pageMounted
  /\ value # searchQuery
  /\ searchQuery' = value
  /\ showDropdown' = IF ~IsBlank(value) THEN TRUE ELSE showDropdown
  /\ debounceTimer' = DebounceEffect(value)
  /\ UNCHANGED <<searchResults, isSearching, searches, nextSearch,
                 savedLocations, pageMounted, hookVars, storeVars,
                 sourceVars, unitVars>>

\* the debounce timer fires and calls handleSearch for a query that is not
\* blank: handleSearch runs up to its await of searchLocationsByName
DebounceTimerFires ==
  /\ pageMounted
  /\ debounceTimer
  /\ debounceTimer' = FALSE
  /\ IF ~IsBlank(searchQuery)
     THEN /\ nextSearch <= MaxSearches
          /\ isSearching' = TRUE
          /\ searches' = searches \cup
               {[sid |-> nextSearch, text |-> searchQuery]}
          /\ nextSearch' = nextSearch + 1
     ELSE UNCHANGED <<isSearching, searches, nextSearch>>
  /\ UNCHANGED <<searchQuery, searchResults, showDropdown, savedLocations,
                 pageMounted, hookVars, storeVars, sourceVars, unitVars>>

\* searchLocationsByName resolves: handleSearch goes on after its await
SearchResolves(s, results) ==
  /\ s \in searches
  /\ searches' = searches \ {s}
  /\ searchResults' = results
  /\ showDropdown' = TRUE
  \* finally
  /\ isSearching' = FALSE
  /\ UNCHANGED <<searchQuery, debounceTimer, nextSearch, savedLocations,
                 pageMounted, hookVars, storeVars, sourceVars, unitVars>>

\* searchLocationsByName rejects: the catch and the finally of handleSearch
SearchRejects(s) ==
  /\ s \in searches
  /\ searches' = searches \ {s}
  /\ searchResults' = <<>>
  /\ isSearching' = FALSE
  /\ UNCHANGED <<searchQuery, showDropdown, debounceTimer, nextSearch,
                 savedLocations, pageMounted, hookVars, storeVars,
                 sourceVars, unitVars>>

\* the end of handleLocationSelect: the search is reset and the saved
\* locations are read again, after the store has been written
ResetSearch ==
  /\ searchQuery' = <<>>
  /\ searchResults' = <<>>
  /\ showDropdown' = FALSE
  /\ debounceTimer' = DebounceEffect(<<>>)
  /\ savedLocations' = loadSavedLocations(favoriteStore', recentStore')
  /\ UNCHANGED <<isSearching, searches, nextSearch, pageMounted>>

\* handleLocationSelect for a place listed under the search results
SelectSearchResult(i, writeFails) ==
  /\ pageMounted
  /\ showDropdown
  /\ i \in 1..Len(searchResults)
  /\ setLocationHook(searchResults[i].id, NameOf(searchResults[i].id))
  /\ RecordRecentStore(searchResults[i], writeFails)
  /\ ResetSearch
  /\ UNCHANGED <<sourceVars, unitVars>>

\* handleLocationSelect for a saved location listed under the recent
\* searches: nothing is added to the store
SelectRecent(i) ==
  /\ pageMounted
  /\ showDropdown
  /\ showRecents
  /\ i \in 1..Len(savedLocations.recentLocations)
  /\ setLocationHook(savedLocations.recentLocations[i].id,
                     NameOf(savedLocations.recentLocations[i].id))
  /\ UNCHANGED <<storeVars, sourceVars, unitVars>>
  /\ ResetSearch

\* the button that clears the input, shown while the input has text: it
\* gives the focus back to the input, whose onFocus opens the dropdown when
\* the click had taken the focus away
ClearSearch(focusMoved) ==
  /\ pageMounted
  /\ searchQuery # <<>>
  /\ searchQuery' = <<>>
  /\ searchResults' = <<>>
  /\ showDropdown' = IF focusMoved THEN TRUE ELSE showDropdown
  /\ debounceTimer' = DebounceEffect(<<>>)
  /\ UNCHANGED <<isSearching, searches, nextSearch, savedLocations,
                 pageMounted, hookVars, storeVars, sourceVars, unitVars>>

\* the input gets the focus
OnFocus ==
  /\ pageMounted
  /\ showDropdown' = TRUE
  /\ UNCHANGED <<searchQuery, searchResults, isSearching, debounceTimer,
                 searches, nextSearch, savedLocations, pageMounted, hookVars,
                 storeVars, sourceVars, unitVars>>

\* a mousedown outside the search box
handleClickOutside ==
  /\ pageMounted
  /\ showDropdown' = FALSE
  /\ UNCHANGED <<searchQuery, searchResults, isSearching, debounceTimer,
                 searches, nextSearch, savedLocations, pageMounted, hookVars,
                 storeVars, sourceVars, unitVars>>

\* the page is opened in a browser without geolocation, with nothing
\* stored or with the place an earlier visit has selected
SearchInit ==
  /\ HookInit
  /\ PageUnused
  /\ browser \in {b \in Browsers : ~b.permissions /\ ~b.geolocation}
  /\ recentStore \in {Absent, stringify(<<savedLocation(PlaceOf("A"))>>)}
  /\ favoriteStore = Absent
  /\ returned = NothingReturned
  /\ dropped = {}
  /\ calledFor = "none"
  /\ SourceUnused
  /\ UnitUnused

\* the search of the page, with the part of the hook a selection needs
SearchNext ==
  \/ StartupEffect
  \/ FetchSettles
  \/ AbortedFetchRejects
  \/ PageMountEffects
  \/ \E value \in PageQueries : handleSearchChange(value)
  \/ DebounceTimerFires
  \/ \E s \in searches : \E results \in ResultsOf(s.text) :
       SearchResolves(s, results)
  \/ \E s \in searches : SearchRejects(s)
  \/ \E i \in DOMAIN searchResults : \E writeFails \in BOOLEAN :
       SelectSearchResult(i, writeFails)
  \/ \E i \in DOMAIN savedLocations.recentLocations : SelectRecent(i)
  \/ \E focusMoved \in BOOLEAN : ClearSearch(focusMoved)
  \/ OnFocus
  \/ handleClickOutside

SearchSpec == SearchInit /\ [][SearchNext]_vars

\* an awaited search that is no longer the search of the most recent
\* query: the text of the input is another one now (edited, cleared, or
\* reset by a selection), or a later search has been started
Superseded(s) == s.text # searchQuery \/ s.sid < nextSearch - 1

\* C40: when location searches overlap, the late completion of the earlier
\* search neither replaces the results shown nor opens the dropdown again
C40_LateCompletionChangesNothing ==
  [][\A s \in searches :
       s \notin searches' /\ Superseded(s)
         => searchResults' = searchResults /\ showDropdown' = showDropdown
    ]_vars

====
